---- MODULE Spec2Model ----
(***************************************************************************)
(* langsmith-fetch: the bulk-retrieval pipeline of src/src/fetchers.ts     *)
(* (fetchTraces / fetchThreads over p-limit), the thread-id scan of        *)
(* fetchThreads, extractRunMetadata, fetchTrace / fetchThread, the         *)
(* configuration of src/src/config.ts, and the trace, thread, traces and   *)
(* threads commands of src/src/cli.ts from their start to their exit.      *)
(*                                                                         *)
(* One step of the model is one turn of the event loop: the arrival of one *)
(* network response, or the settling of mkdir, together with everything    *)
(* the code does synchronously and in microtasks before it waits again.    *)
(***************************************************************************)
EXTENDS Integers, Sequences, FiniteSets, TLC

\* ------------------------------------------------------------------ bounds
MaxItems == 3
MaxConcurrent == 3
MaxLimit == 2
MaxRuns == 5
MaxSegments == 3
MaxCalls == 3
MaxNameLen == 3

\* ------------------------------------------------------- program constants
DefaultMaxConcurrent == 5
DefaultTraceLimit == 1
DefaultThreadLimit == 10
MaxFilename == 255

\* ------------------------------------------------------------ JS values
\* A JavaScript value is a record tagged by its kind, so that values of
\* different kinds can be compared.
Undefined == [undefined |-> TRUE]
JsNull == [null |-> TRUE]
NaN == [nan |-> TRUE]
Num(n) == [num |-> n]
Str(s) == [str |-> s]
Arr(s) == [arr |-> s]
NoError == "none"

\* v is falsy in a condition (if (v), a && b, a || b)
Falsy(v) == v \in {Undefined, JsNull, NaN, Num(0), Str("")}
Truthy(v) == ~Falsy(v)
\* a ?? b
Coalesce(a, b) == IF a \in {Undefined, JsNull} THEN b ELSE a
\* a || b
OrElse(a, b) == IF Truthy(a) THEN a ELSE b
\* a - b on numbers
NumSub(a, b) == IF a = NaN \/ b = NaN THEN NaN ELSE Num(a.num - b.num)

\* new Date(s).getTime() for the timestamp strings of the model: milliseconds
\* since the epoch, NaN for a string that is no date.
DateGetTime(v) ==
    CASE v = Str("1970-01-01T00:00:00Z") -> Num(0)
      [] v = Str("1970-01-01T00:00:00+00:00") -> Num(0)
      [] v = Str("1970-01-01T00:00:01Z") -> Num(1000)
      [] v = Str("1970-01-01T00:00:01+00:00") -> Num(1000)
      [] v = Str("1970-01-01T00:00:02.500Z") -> Num(2500)
      [] v = Str("1970-01-01T00:00:02.500+00:00") -> Num(2500)
      [] v = Str("1970-01-02") -> Num(86400000)
      [] OTHER -> NaN

\* Date.now() of the call, in milliseconds (01:00:00 on the epoch day)
NowMs == 60 * 60 * 1000

\* =================================================== extractRunMetadata
\* A raw run, as far as the model reads it.  A field that is not in the
\* payload is Undefined.
EmptyObject == [thread_id |-> Undefined, session_id |-> Undefined]

MkRun(id, status, start, end, extra, stats, messages, outputs) ==
    [id |-> id, status |-> status, start_time |-> start, end_time |-> end,
     extra |-> extra, feedback_stats |-> stats,
     messages |-> messages, outputs |-> outputs]

\* fetchers.ts 59-68: the duration of a run
DurationMs(run) ==
    IF Truthy(run.start_time) /\ Truthy(run.end_time)
    THEN LET start == DateGetTime(run.start_time)
             end == DateGetTime(run.end_time)
         IN  NumSub(end, start)
    ELSE JsNull

\* fetchers.ts 55-89
extractRunMetadata(run) ==
    LET extra == OrElse(run.extra, [metadata |-> Undefined])
        customMetadata == OrElse(extra.metadata, EmptyObject)
    IN  [status |-> Coalesce(run.status, JsNull),
         start_time |-> Coalesce(run.start_time, JsNull),
         end_time |-> Coalesce(run.end_time, JsNull),
         duration_ms |-> DurationMs(run),
         custom_metadata |-> customMetadata,
         feedback_stats |-> Coalesce(run.feedback_stats, Arr(<<>>))]

\* fetchers.ts 91-97: feedback_stats is modelled by the array of its values
hasFeedback(metadata) ==
    LET stats == metadata.feedback_stats
    IN  IF stats \in {Undefined, JsNull} THEN FALSE
        ELSE \E i \in 1..Len(stats.arr) :
                /\ "num" \in DOMAIN stats.arr[i]
                /\ stats.arr[i].num > 0

\* ====================================================== thread-id scan
\* an identifier that prefers session_id
ThreadIdOfSessionFirst(run) ==
    LET meta == IF run.extra \in {Undefined, JsNull}
                THEN EmptyObject
                ELSE Coalesce(run.extra.metadata, EmptyObject)
    IN  Coalesce(meta.session_id, meta.thread_id)

\* fetchers.ts 312-313: the thread identifier of one run
ThreadIdOf(run) ==
    LET meta == IF run.extra \in {Undefined, JsNull}
                THEN EmptyObject
                ELSE Coalesce(run.extra.metadata, EmptyObject)
    IN  Coalesce(meta.thread_id, meta.session_id)

HasNever(keys, k) == FALSE
\* fetchers.ts 314: Map.has on the keys in insertion order
Has(keys, k) == \E i \in 1..Len(keys) : keys[i] = k

\* fetchers.ts 310-318, one turn of the for loop.  s.pos is the run the
\* iterator yields next, s.threadIds the keys of the Map in insertion order.
ScanStep(s) ==
    LET
        \* fetchers.ts 316: the test that ends the scan
        ReachedLimit(size, limit) == size >= limit
    IN
    IF s.pos > Len(s.runs)
    THEN [s EXCEPT !.stopped = TRUE]
    ELSE LET threadId == ThreadIdOf(s.runs[s.pos])
         IN  IF Truthy(threadId) /\ ~Has(s.threadIds, threadId)
             THEN LET ids == Append(s.threadIds, threadId)
                  IN  IF ReachedLimit(Len(ids), s.limit)
                      THEN [s EXCEPT !.threadIds = ids, !.stopped = TRUE]
                      ELSE [s EXCEPT !.threadIds = ids, !.pos = s.pos + 1]
             ELSE [s EXCEPT !.pos = s.pos + 1]

StartScan(runs, limit) ==
    [runs |-> runs, limit |-> limit, pos |-> 1, threadIds |-> <<>>, stopped |-> FALSE]

RECURSIVE RunScan(_)
RunScan(s) == IF s.stopped THEN s ELSE RunScan(ScanStep(s))

\* ============================================================ transport
Outcomes ==
    LET
        \* What the network does with one request: a success response whose body
        \* decodes, a non-success status, a rejected fetch(), or a success response
        \* whose body does not decode.
        Failures == {"http_error", "network_error", "bad_json"}
    IN
    {"ok"} \cup Failures

\* ========================================================== query builder
Iso(t) == [iso |-> t.num]

\* a builder that tests lastNMinutes for truthiness, so that 0 is no filter
StartTimeTruthy(o) ==
    IF Truthy(o.lastNMinutes)
    THEN [threw |-> FALSE,
          value |-> Iso(NumSub(Num(NowMs), Num(o.lastNMinutes.num * 60 * 1000)))]
    ELSE IF Truthy(o.since) /\ DateGetTime(o.since) # NaN
    THEN [threw |-> FALSE, value |-> Iso(DateGetTime(o.since))]
    ELSE [threw |-> FALSE, value |-> Undefined]

\* fetchers.ts 219-225 / 293-299: body.start_time, or the RangeError that
\* toISOString() throws on an invalid Date
StartTime(o) ==
    LET
        \* since.replace('Z', '+00:00') on the timestamp strings of the model
        ReplaceZ(v) ==
            CASE v = Str("1970-01-01T00:00:00Z") -> Str("1970-01-01T00:00:00+00:00")
              [] v = Str("1970-01-01T00:00:01Z") -> Str("1970-01-01T00:00:01+00:00")
              [] v = Str("1970-01-01T00:00:02.500Z") -> Str("1970-01-01T00:00:02.500+00:00")
              [] OTHER -> v
    IN
    IF o.lastNMinutes \notin {Undefined, JsNull}
    THEN LET t == IF o.lastNMinutes = NaN THEN NaN
                  ELSE NumSub(Num(NowMs), Num(o.lastNMinutes.num * 60 * 1000))
         IN  IF t = NaN THEN [threw |-> TRUE] ELSE [threw |-> FALSE, value |-> Iso(t)]
    ELSE IF Truthy(o.since)
    THEN LET t == DateGetTime(ReplaceZ(o.since))
         IN  IF t = NaN THEN [threw |-> TRUE] ELSE [threw |-> FALSE, value |-> Iso(t)]
    ELSE [threw |-> FALSE, value |-> Undefined]

\* fetchers.ts 209-217 (traces), 288-291 (threads): the body without start_time.
\* A key the code does not set is Undefined.
BaseBody(o) ==
    IF o.kind = "traces"
    THEN [is_root |-> TRUE,
          filter |-> Str("and(eq(is_root, true), neq(status, \"pending\"))"),
          limit |-> Coalesce(o.limit, Num(DefaultTraceLimit)),
          session |-> IF Truthy(o.projectUuid) THEN Arr(<<o.projectUuid>>) ELSE Undefined,
          start_time |-> Undefined]
    ELSE [is_root |-> TRUE,
          filter |-> Undefined,
          limit |-> Undefined,
          session |-> Arr(<<o.projectUuid>>),
          start_time |-> Undefined]

NoBody == [none |-> TRUE]
NoOpts == [none |-> TRUE]
NoSent == [query |-> 0, item |-> 0, feedback |-> 0]

\* ============================================================ file names
\* A file name is a string, written as the sequence of its characters.
\* \w of a regular expression without the u flag: ASCII letters, digits, '_'
WordChars ==
    {"a", "b", "c", "d", "e", "f", "j", "s", "o", "n", "t", "u", "_"}
    \cup {"1", "2", "3", "4", "5", "6", "7", "8", "9"}

\* utils.ts 3-10
sanitizeFilename(name) ==
    LET
        \* name.replace(/[^\w\-.]/g, '_')
        replaced == [i \in 1..Len(name) |->
                        IF name[i] \in WordChars \cup {"-", "."} THEN name[i] ELSE "_"]
        \* [.\s] on the characters of the model
        Stripped(c) == c \in {".", " "}
        \* safe.replace(/^[.\s]+|[.\s]+$/g, ''): the leading run goes first, then
        \* the trailing run of what is left
        lead == Cardinality({i \in 1..Len(replaced) : \A j \in 1..i : Stripped(replaced[j])})
        rest == SubSeq(replaced, lead + 1, Len(replaced))
        trail == Cardinality({i \in 1..Len(rest) : \A j \in i..Len(rest) : Stripped(rest[j])})
        safe == SubSeq(rest, 1, Len(rest) - trail)
    IN
    IF Len(safe) > MaxFilename THEN SubSeq(safe, 1, MaxFilename) ELSE safe

\* cli.ts 294-302 / 508-516: the file name of item number n (from 1) of a
\* batch.  A pattern is a sequence of characters and placeholders: "{id}" is
\* {trace_id...} in the traces command and {thread_id...} in the threads
\* command, "{index}" and "{idx}" are replaced by String(i + 1).
FileName(pattern, id, n) ==
    LET
        digits == <<"1", "2", "3", "4", "5", "6", "7", "8", "9">>
        Piece(p) == CASE p = "{id}" -> id
                      [] p \in {"{index}", "{idx}"} -> <<digits[n]>>
                      [] OTHER -> <<p>>
        RECURSIVE Filled(_)
        Filled(k) == IF k = 0 THEN <<>> ELSE Filled(k - 1) \o Piece(pattern[k])
        json == <<".", "j", "s", "o", "n">>
        safeFilename == sanitizeFilename(Filled(Len(pattern)))
        endsWithJson == /\ Len(safeFilename) >= Len(json)
                        /\ SubSeq(safeFilename, Len(safeFilename) - Len(json) + 1, Len(safeFilename)) = json
    IN
    IF endsWithJson THEN safeFilename ELSE safeFilename \o json

\* ========================================================== configuration
EmptyConfig ==
    LET
        \* The process environment and the config file, as far as the code reads
        \* them.  A variable that is not set, or a key the file does not hold, is
        \* Undefined; a file that is missing or does not load holds no key.
        ConfigKeys == {"api-key", "api_key", "project-uuid", "project_uuid"}
    IN
    [k \in ConfigKeys |-> Undefined]

\* noKeyAtCall records that neither the variable nor the file held a key when
\* the operation of the process was called (FALSE while none has been called)
MkEnv(apiKey, projectUuid, project, cfg) ==
    [LANGSMITH_API_KEY |-> apiKey, LANGSMITH_PROJECT_UUID |-> projectUuid,
     LANGSMITH_PROJECT |-> project, config |-> cfg, noKeyAtCall |-> FALSE]

\* config.ts 39-47
getConfigValue(e, key) ==
    LET
        \* key.replace(/_/g, '-') and key.replace(/-/g, '_') on the keys of the model
        HyphenKey(k) ==
            CASE k = "api_key" -> "api-key"
              [] k = "project_uuid" -> "project-uuid"
              [] OTHER -> k
        UnderscoreKey(k) ==
            CASE k = "api-key" -> "api_key"
              [] k = "project-uuid" -> "project_uuid"
              [] OTHER -> k
    IN
    Coalesce(e.config[HyphenKey(key)], e.config[UnderscoreKey(key)])

\* a getApiKey that hands out the missing key
getApiKeyNoThrow(e) ==
    [threw |-> FALSE, value |-> OrElse(e.LANGSMITH_API_KEY, getConfigValue(e, "api-key"))]

\* config.ts 49-60
getApiKey(e) ==
    IF Truthy(e.LANGSMITH_API_KEY)
    THEN [threw |-> FALSE, value |-> e.LANGSMITH_API_KEY]
    ELSE IF Truthy(getConfigValue(e, "api-key"))
    THEN [threw |-> FALSE, value |-> getConfigValue(e, "api-key")]
    ELSE [threw |-> TRUE, error |-> "ConfigError"]

NoEnv == [none |-> TRUE]

\* ===================================================== single-item fetchers
Thrown(e) == [threw |-> TRUE, error |-> e]
Returned(v) == [threw |-> FALSE, value |-> v]

NoData == [none |-> TRUE]

\* a selection that appends the nested messages to the direct ones
MessagesOfBoth(run) ==
    Arr((IF Truthy(run.messages) THEN run.messages.arr ELSE <<>>) \o
        (IF run.outputs \notin {Undefined, JsNull} /\ Truthy(run.outputs.messages)
         THEN run.outputs.messages.arr ELSE <<>>))

\* fetchers.ts 134-135: run.messages || run.outputs?.messages || []
MessagesOf(run) ==
    OrElse(run.messages,
           OrElse(IF run.outputs \in {Undefined, JsNull} THEN Undefined
                  ELSE run.outputs.messages,
                  Arr(<<>>)))

\* a fetchTrace that attaches each field only when that field was requested
TraceFromRunStrict(traceId, run, includeMetadata, includeFeedback) ==
    LET result == [trace_id |-> traceId, messages |-> MessagesOf(run),
                   metadata |-> Undefined, feedback |-> Undefined]
        metadata == extractRunMetadata(run)
        r1 == IF includeMetadata THEN [result EXCEPT !.metadata = metadata] ELSE result
    IN  IF includeFeedback /\ hasFeedback(metadata)
        THEN [needFeedback |-> TRUE, result |-> r1]
        ELSE [needFeedback |-> FALSE,
              result |-> IF includeFeedback THEN [r1 EXCEPT !.feedback = Arr(<<>>)] ELSE r1]

\* fetchers.ts 126-145: fetchTrace from the run payload up to the feedback
\* request.  needFeedback says that the request of line 146 is issued.
TraceFromRun(traceId, run, includeMetadata, includeFeedback) ==
    LET result == [trace_id |-> traceId, messages |-> MessagesOf(run),
                   metadata |-> Undefined, feedback |-> Undefined]
    IN  IF includeMetadata \/ includeFeedback
        THEN LET metadata == extractRunMetadata(run)
             IN  IF includeFeedback /\ hasFeedback(metadata)
                 THEN [needFeedback |-> TRUE,
                       result |-> [result EXCEPT !.metadata = metadata]]
                 ELSE [needFeedback |-> FALSE,
                       result |-> [result EXCEPT !.metadata = metadata,
                                                 !.feedback = Arr(<<>>)]]
        ELSE [needFeedback |-> FALSE, result |-> result]

\* The shapes of a decoded /feedback payload: an array, an object with a
\* feedback member (list is that array), an object without one, and the values
\* that are no object at all (JSON null, a number, a string)
FeedbackPayloads ==
    {[shape |-> "array", list |-> Arr(<<"fb-1">>)],
     [shape |-> "array", list |-> Arr(<<>>)],
     [shape |-> "wrapped", list |-> Arr(<<"fb-1">>)],
     [shape |-> "object", list |-> Undefined],
     [shape |-> "null", list |-> Undefined],
     [shape |-> "number", list |-> Undefined],
     [shape |-> "string", list |-> Undefined]}

\* fetchers.ts 104-119: fetchFeedback on the outcome of its request.  The `in`
\* operator of line 118 throws a TypeError when its right operand is no object.
fetchFeedback(outcome, payload) ==
    CASE outcome = "network_error" -> Thrown("TypeError")
      [] outcome = "http_error" -> Returned(Arr(<<>>))
      [] outcome = "bad_json" -> Thrown("SyntaxError")
      [] payload.shape = "array" -> Returned(payload.list)
      [] payload.shape \in {"null", "number", "string"} -> Thrown("TypeError")
      [] payload.shape = "wrapped" -> Returned(payload.list)
      [] OTHER -> Returned(Arr(<<>>))

\* ------------------------------------------------- message-stream parser
\* The blob is a string over these pieces of text: M1 and M2 are serialized
\* message objects, X is text that is no JSON, NL is a newline, SP a space,
\* LB and RB the brackets of a JSON array.
Whitespace == {"NL", "SP"}

\* s.indexOf('\n\n') from position i on; 0 when there is none
RECURSIVE IndexOfSeparator(_, _)
IndexOfSeparator(s, i) ==
    IF i + 1 > Len(s) THEN 0
    ELSE IF s[i] = "NL" /\ s[i + 1] = "NL" THEN i
    ELSE IndexOfSeparator(s, i + 1)

\* fetchers.ts 167: messagesText.split('\n\n')
RECURSIVE Split(_)
Split(s) ==
    LET i == IndexOfSeparator(s, 1)
    IN  IF i = 0 THEN <<s>>
        ELSE <<SubSeq(s, 1, i - 1)>> \o Split(SubSeq(s, i + 2, Len(s)))

\* fetchers.ts 168: line.trim()
RECURSIVE Trim(_)
Trim(s) ==
    IF s = <<>> THEN s
    ELSE IF Head(s) \in Whitespace THEN Trim(Tail(s))
    ELSE IF s[Len(s)] \in Whitespace THEN Trim(SubSeq(s, 1, Len(s) - 1))
    ELSE s

\* JSON.parse accepts the text: a message object, or an array of at most one
\* value (the pieces hold no comma)
RECURSIVE IsJson(_)
IsJson(s) ==
    \/ Len(s) = 1 /\ s[1] \in {"M1", "M2"}
    \/ /\ Len(s) >= 2
       /\ s[1] = "LB"
       /\ s[Len(s)] = "RB"
       /\ LET inner == Trim(SubSeq(s, 2, Len(s) - 1))
          IN  inner = <<>> \/ IsJson(inner)

\* fetchers.ts 171: JSON.parse(trimmed); the value is written as the text
\* without its whitespace
JsonParse(s) ==
    IF IsJson(s)
    THEN Returned(SelectSeq(s, LAMBDA c : c \notin Whitespace))
    ELSE Thrown("SyntaxError")

\* a loop body without the try / catch around JSON.parse
PushSegmentNoCatch(acc, line) ==
    LET trimmed == Trim(line)
    IN  IF acc.threw \/ trimmed = <<>> THEN acc
        ELSE LET v == JsonParse(trimmed)
             IN  IF v.threw THEN v ELSE Returned(Append(acc.value, v.value))

\* fetchers.ts 168-175: the body of the loop over the segments
PushSegment(acc, line) ==
    LET trimmed == Trim(line)
    IN  IF acc.threw \/ trimmed = <<>> THEN acc
        ELSE LET v == JsonParse(trimmed)
             IN  IF v.threw THEN acc ELSE Returned(Append(acc.value, v.value))

RECURSIVE PushSegments(_, _)
PushSegments(acc, lines) ==
    IF lines = <<>> THEN acc
    ELSE PushSegments(PushSegment(acc, Head(lines)), Tail(lines))

\* fetchers.ts 164-181: fetchThread on a decoded preview payload
ThreadFromPreview(threadId, payload) ==
    LET
        \* fetchers.ts 164-176: the messages of a blob
        ParseMessages(blob) == PushSegments(Returned(<<>>), Split(blob))
    IN
    IF payload.previews = Undefined \/ payload.previews.all_messages = Undefined
    THEN Thrown("TypeError")
    ELSE LET messages == ParseMessages(payload.previews.all_messages.arr)
         IN  IF messages.threw THEN messages
             ELSE Returned([thread_id |-> threadId, messages |-> Arr(messages.value)])

\* ------------------------------------------------------- HTTP responses
\* What fetch() gives for one request: a rejection (arrived = FALSE), or a
\* response with a status, a body text, and the value the body decodes to
\* (decodes = FALSE when response.json() rejects).
Bool(b) == [bool |-> b]
HttpResponse(status, text, decodes, json) ==
    [arrived |-> TRUE, status |-> status, text |-> text, decodes |-> decodes, json |-> json]

\* the responses to a request whose success payload is one of payloads
ResponsesWith(payloads) ==
    LET
        ErrorTexts == {Str("detail"), Str("")}
        ErrorStatuses == {404, 500}
        NetworkFailure ==
            [arrived |-> FALSE, status |-> 0, text |-> Str(""), decodes |-> FALSE, json |-> NoData]
    IN
    {NetworkFailure}
    \cup {HttpResponse(st, t, FALSE, NoData) : st \in ErrorStatuses, t \in ErrorTexts}
    \cup {HttpResponse(200, Str(""), FALSE, NoData)}
    \cup {HttpResponse(200, Str(""), TRUE, j) : j \in payloads}

\* response.ok
ResponseOk(r) == r.status >= 200 /\ r.status <= 299

OutcomeOf(r) ==
    IF ~r.arrived THEN "network_error"
    ELSE IF ~ResponseOk(r) THEN "http_error"
    ELSE IF ~r.decodes THEN "bad_json"
    ELSE "ok"

JsError(name) == [name |-> name]
\* types.ts: new ApiError(message, statusCode, responseBody)
ApiError(statusCode, responseBody) ==
    [name |-> "ApiError", statusCode |-> statusCode, responseBody |-> responseBody]

\* an apiRequest that reports every failure as a plain Error
apiRequestPlainError(r) ==
    IF OutcomeOf(r) = "ok" THEN Returned(r.json) ELSE Thrown(JsError("Error"))

\* fetchers.ts 37-52: apiRequest once fetch() settled
apiRequest(r) ==
    CASE OutcomeOf(r) = "network_error" -> Thrown(JsError("TypeError"))
      [] OutcomeOf(r) = "http_error" -> Thrown(ApiError(r.status, r.text))
      [] OutcomeOf(r) = "bad_json" -> Thrown(JsError("SyntaxError"))
      [] OTHER -> Returned(r.json)

\* ------------------------------------------------------- getProjectUuid
\* config.ts 105-123 up to its first await: the value it returns, the error
\* it throws, or the lookup request it issues
ProjectUuidStep(e, cache) ==
    IF Truthy(e.LANGSMITH_PROJECT_UUID)
    THEN [kind |-> "return", value |-> e.LANGSMITH_PROJECT_UUID]
    ELSE IF Truthy(e.LANGSMITH_PROJECT)
    THEN IF Truthy(cache) THEN [kind |-> "return", value |-> cache]
         ELSE IF getApiKey(e).threw THEN [kind |-> "throw", value |-> Undefined]
         ELSE [kind |-> "lookup", value |-> Undefined]
    ELSE [kind |-> "return", value |-> getConfigValue(e, "project-uuid")]

\* decoded /sessions?name= payloads
SessionPayloads ==
    {JsNull, Arr(<<>>), Arr(<<[id |-> Str("proj-9")]>>), Arr(<<[id |-> Str("proj-8")]>>),
     Arr(<<[id |-> Str("proj-9")], [id |-> Str("proj-8")]>>)}

\* config.ts 89-102: lookupProjectUuidByName once fetch() settled
lookupProjectUuidByName(r) ==
    CASE OutcomeOf(r) = "network_error" -> Thrown(JsError("TypeError"))
      [] OutcomeOf(r) = "http_error" -> Thrown(ApiError(r.status, r.text))
      [] OutcomeOf(r) = "bad_json" -> Thrown(JsError("SyntaxError"))
      [] OTHER -> IF r.json = JsNull \/ Len(r.json.arr) = 0
                  THEN Thrown(JsError("ConfigError"))
                  ELSE Returned(r.json.arr[1].id)

\* ======================================================== bulk orchestrator

\* p-limit accepts a concurrency that is a positive integer (fetchers.ts 235)
PLimitAccepts(k) == "num" \in DOMAIN k /\ k.num >= 1

\* p-limit: a queued task may start
CanStartUnlimited(active, k) == TRUE
CanStart(active, k) == active < k

\* onProgress?.(completed, total)
Report(b, total, cb) ==
    IF cb = "none" THEN b
    ELSE [b EXCEPT !.progress = Append(@, <<b.completed, total>>)]

Settled(val, data, why) == [st |-> "settled", val |-> val, data |-> data, why |-> why]

\* a catch block that forgets the progress report
TaskCatchSilent(b, i, why, total, cb, thr) ==
    [b EXCEPT !.completed = @ + 1, !.tasks[i] = Settled("null", NoData, why)]

\* a catch block that rethrows
TaskCatchRethrow(b, i, why, total, cb, thr) ==
    LET b1 == Report([b EXCEPT !.completed = @ + 1], total, cb)
    IN  [b1 EXCEPT !.tasks[i] = Settled("rejected", NoData, why)]

\* a catch block that fetches the failed item once more
TaskCatchRetry(b, i, why, total, cb, thr) == [b EXCEPT !.sent.item = @ + 1]

\* fetchers.ts 254-258 / 333-337: the catch block of a task; why is what the
\* try block threw.  When onProgress throws here, the task rejects.
TaskCatch(b, i, why, total, cb, thr) ==
    LET b1 == Report([b EXCEPT !.completed = @ + 1], total, cb)
    IN  IF thr
        THEN [b1 EXCEPT !.tasks[i] = Settled("rejected", NoData, why)]
        ELSE [b1 EXCEPT !.tasks[i] = Settled("null", NoData, why)]

\* p-limit: start queued tasks, first in first out, while one may start.  A
\* task function that finds no API key (apiRequest, fetchers.ts 22) sends
\* nothing: fetchTrace / fetchThread rejects, the catch block of the task runs
\* in the same turn, and the limiter goes on with the next queued task.
\* b.key says whether getApiKey finds a key now, b.thrs[i] whether the
\* onProgress invocation of that catch block throws.
RECURSIVE PLimitResume(_, _)
PLimitResume(b, k) ==
    LET
        \* p-limit run: activeCount++ and the call of the task function, which runs
        \* up to its first await: fetchTrace / fetchThread -> apiRequest -> fetch()
        PLimitRun(b0, i) ==
            [b0 EXCEPT !.activeCount = @ + 1,
                      !.tasks[i].st = "run",
                      !.sent.item = @ + 1]
        NoKey(b0, i) == TaskCatch(b0, i, "no_key", Len(b0.tasks), b0.cb, b0.thrs[i])
    IN
    IF Len(b.queue) > 0 /\ CanStart(b.activeCount, k)
    THEN IF b.key
         THEN PLimitResume(PLimitRun([b EXCEPT !.queue = Tail(@)], Head(b.queue)), k)
         ELSE PLimitResume(NoKey([b EXCEPT !.queue = Tail(@)], Head(b.queue)), k)
    ELSE b

\* a limiter that frees the slot and leaves the queue alone
PLimitNextNoResume(b, k) == [b EXCEPT !.activeCount = @ - 1]

\* a limiter that resumes with the item that waited last
PLimitNextNewestFirst(b, k) ==
    PLimitResume([b EXCEPT !.activeCount = @ - 1,
                           !.queue = [j \in 1..Len(@) |-> @[Len(@) + 1 - j]]], k)

\* p-limit next, after a task's promise settled
PLimitNext(b, k) == PLimitResume([b EXCEPT !.activeCount = @ - 1], k)

\* fetchers.ts 251-253 / 330-332: the end of the try block of a task; an
\* exception of onProgress is caught by the catch block
TaskReturn(b, i, data, total, cb, thr1, thr2) ==
    LET b1 == Report([b EXCEPT !.completed = @ + 1], total, cb)
    IN  IF thr1
        THEN TaskCatch(b1, i, "callback", total, cb, thr2)
        ELSE [b1 EXCEPT !.tasks[i] = Settled("result", data, NoError)]

\* fetchers.ts 264 / 343: results.filter(r => r !== null)
ResultsWithPlaceholders(ts) == [j \in 1..Len(ts) |-> ts[j].data]
Results(ts) ==
    LET kept == SelectSeq(ts, LAMBDA t : t.val = "result")
    IN  [j \in 1..Len(kept) |-> kept[j].data]

VARIABLES
    pc,           \* where the bulk call or its command is: idle, mkdir, query, fanout,
                  \* done, rejected, exit
    opts,         \* the options record the call was made with
    body,         \* the /runs/query request body built by the call
    sent,         \* network requests issued so far, by kind
    items,        \* the work items: run ids, or deduplicated thread ids
    tasks,        \* per item: the state of its limited task
    activeCount,  \* p-limit's activeCount
    queue,        \* p-limit's queue of tasks not yet started (item indexes)
    completed,    \* the settled counter of the batch
    progress,     \* the onProgress invocations so far: <<completed, total>>
    ret,          \* the array the call resolved to
    err,          \* the error the call rejected with
    queryData,    \* the decoded /runs/query payload, once it arrived
    reordered,    \* history: some item settled before an earlier item did
    scan,         \* the thread-id scan of fetchThreads, as a loop state
    meta,         \* one extractRunMetadata application: its run and its result
    env,          \* the environment and config file the running operation reads
    single,       \* one single-item operation: fetchTrace, fetchThread, trace / thread command
    proj,         \* the getProjectUuid calls of the process and projectUuidCache
    parse,        \* one run of the message-stream parser: its blob and its result
    app,          \* one application of getApiKey or sanitizeFilename: input and result
    dir,          \* one directory-mode save loop: the batch, the pattern, the files written
    cmd           \* one run of the traces / threads command: its mode and how it ended

vars == <<pc, opts, body, sent, items, tasks, activeCount, queue, completed, progress,
          ret, err, queryData, reordered, scan, meta, env, single, proj, parse, app, dir, cmd>>

\* ------------------------------------------------------------- inputs
\* The options of one call (FetchTracesOptions / FetchThreadsOptions); via says
\* who made the call: a library caller ("api") or a command of the CLI ("cli")
MkOpts(kind, via, limit, projectUuid, lastNMinutes, since, maxConcurrent, inclMeta, inclFb, onProgress) ==
    [kind |-> kind, via |-> via, limit |-> limit, projectUuid |-> projectUuid,
     lastNMinutes |-> lastNMinutes, since |-> since,
     maxConcurrent |-> maxConcurrent, includeMetadata |-> inclMeta,
     includeFeedback |-> inclFb, onProgress |-> onProgress]

Project == Str("proj-1")
SinceOk == Str("1970-01-01T00:00:01Z")

\* Calls that exercise the query builder: every combination of time filters
QueryOpts ==
    {MkOpts(kind, "api", l, Project, n, s, Undefined, FALSE, FALSE, "none") :
        kind \in {"traces", "threads"}, l \in {Undefined, Num(MaxLimit)},
        n \in {Undefined, Num(0), Num(30)},
        s \in {Undefined, Str(""), SinceOk, Str("not-a-date")}}
    \cup
    {MkOpts("traces", "api", Undefined, Undefined, n, s, Undefined, FALSE, FALSE, "none") :
        n \in {Undefined, Num(30)}, s \in {Undefined, SinceOk}}

FetchOpts ==
    LET
        \* Calls that exercise the fan-out: every concurrency, every kind of callback,
        \* every combination of includeMetadata / includeFeedback, every thread limit
        OrchestratorOpts ==
            LET
                \* "none": no onProgress; "returns": one that returns; "throws": one that may throw
                CallbackChoices == {"none", "returns", "throws"}
            IN
            LET
                LimitChoices == {Undefined} \cup {Num(n) : n \in 0..MaxLimit}
            IN
            LET
                ConcurrencyChoices == {Undefined} \cup {Num(k) : k \in 0..MaxConcurrent}
            IN
            {MkOpts(kind, "api", Undefined, Project, Undefined, Undefined, k, FALSE, FALSE, "returns") :
                kind \in {"traces", "threads"}, k \in ConcurrencyChoices}
            \cup
            {MkOpts(kind, "api", Undefined, Project, Undefined, Undefined, k, FALSE, FALSE, cb) :
                kind \in {"traces", "threads"}, k \in {Undefined, Num(1)}, cb \in CallbackChoices}
            \cup
            {MkOpts("traces", "api", Undefined, Project, Undefined, Undefined, Num(2), m, f, "returns") :
                m \in BOOLEAN, f \in BOOLEAN}
            \cup
            {MkOpts("threads", "api", l, Project, Undefined, Undefined, k, FALSE, FALSE, "returns") :
                k \in {Undefined, Num(1)}, l \in LimitChoices}
    IN
    OrchestratorOpts \cup QueryOpts

\* The command line of the traces / threads commands, as commander hands it
\* to the action: option values are strings
CliOpts ==
    [kind : {"traces", "threads"},
     limit : {Str("1"), Str("2")},
     lastNMinutes : {Undefined, Str("0"), Str("30"), Str("abc")},
     since : {Undefined, SinceOk},
     maxConcurrent : {Str("5"), Str("1")},
     progress : BOOLEAN,
     includeMetadata : {FALSE},
     includeFeedback : {FALSE},
     projectUuid : {Project},
     dir : {Undefined},
     filenamePattern : {<<"{id}", ".", "j", "s", "o", "n">>}]
    \cup
    \* directory mode: the [dir] argument is given; chars are its characters
    [kind : {"traces", "threads"},
     limit : {Str("1"), Str("2")},
     lastNMinutes : {Undefined, Str("30")},
     since : {Undefined, SinceOk},
     maxConcurrent : {Str("5")},
     progress : {TRUE},
     includeMetadata : {FALSE},
     includeFeedback : {FALSE},
     projectUuid : {Project},
     dir : {[chars |-> s] :
               s \in {<<>>, <<"o", "u", "t">>,
                      [i \in 1..36 |-> IF i \in {9, 14, 19, 24} THEN "-" ELSE "a"],
                      [i \in 1..36 |-> IF i \in {9, 14, 19, 24} THEN "-"
                                       ELSE IF i < 9 THEN "A" ELSE "1"],
                      [i \in 1..35 |-> IF i \in {9, 14, 19, 24} THEN "-" ELSE "a"]}},
     filenamePattern : {<<"{id}", ".", "j", "s", "o", "n">>, <<"o", "u", "t">>}]
    \cup
    \* options given with an empty value
    [kind : {"traces", "threads"},
     limit : {Str("1")},
     lastNMinutes : {Str(""), Str("30")},
     since : {Str(""), SinceOk},
     maxConcurrent : {Str("5")},
     progress : {FALSE},
     includeMetadata : {FALSE},
     includeFeedback : {FALSE},
     projectUuid : {Project},
     dir : {Undefined},
     filenamePattern : {<<"{id}", ".", "j", "s", "o", "n">>}]

\* parseInt(s, 10) on the option strings of the model
ParseInt(v) ==
    CASE v = Str("0") -> Num(0)
      [] v = Str("1") -> Num(1)
      [] v = Str("2") -> Num(2)
      [] v = Str("5") -> Num(5)
      [] v = Str("30") -> Num(30)
      [] OTHER -> NaN

IdPool == <<"a", "b", "c", "d", "e", "f">>
ThreadRun(id) ==
    MkRun(Str("run"), Undefined, Undefined, Undefined,
          [metadata |-> [thread_id |-> Str(id), session_id |-> Undefined]],
          Undefined, Undefined, Undefined)

\* /runs/threads/{id} payloads of the batch
PreviewPayloads ==
    {[previews |-> Undefined],
     [previews |-> [all_messages |-> Arr(<<"M1", "NL", "NL", "X", "NL", "NL", "M2">>)]]}

NoScan == [none |-> TRUE]
NoMeta == [none |-> TRUE]
NoSingle == [none |-> TRUE]
NoProj == [none |-> TRUE]
NoParse == [none |-> TRUE]
NoApp == [none |-> TRUE]
NoCmd == [none |-> TRUE]
NoDir == [none |-> TRUE]

\* Environments of the bulk calls: with a key, and without one
KeyEnv == MkEnv(Str("key-env"), Undefined, Undefined, EmptyConfig)
NoKeyEnvs ==
    {MkEnv(k, Undefined, Undefined, [EmptyConfig EXCEPT !["api-key"] = c]) :
        k \in {Undefined, Str("")}, c \in {Undefined, Str("")}}

\* --------------------------------------------------------------- state
Init ==
    /\ pc = "idle"
    /\ opts = NoOpts
    /\ body = NoBody
    /\ sent = NoSent
    /\ items = <<>>
    /\ tasks = <<>>
    /\ activeCount = 0
    /\ queue = <<>>
    /\ completed = 0
    /\ progress = <<>>
    /\ ret = <<>>
    /\ err = NoError
    /\ queryData = NoData
    /\ reordered = FALSE
    /\ scan = NoScan
    /\ meta = NoMeta
    /\ env = NoEnv
    /\ single = NoSingle
    /\ proj = NoProj
    /\ parse = NoParse
    /\ app = NoApp
    /\ dir = NoDir
    /\ cmd = NoCmd

\* the batch as the limiter and the tasks see it in one turn of the event
\* loop: the state of the fan-out, whether getApiKey finds a key in this turn,
\* the callback, and thrs (see PLimitResume)
Batch(thrs) ==
    [tasks |-> tasks, activeCount |-> activeCount, queue |-> queue,
     completed |-> completed, progress |-> progress, sent |-> sent,
     key |-> ~getApiKey(env).threw, cb |-> opts.onProgress, thrs |-> thrs]

SetBatch(b) ==
    /\ tasks' = b.tasks
    /\ activeCount' = b.activeCount
    /\ queue' = b.queue
    /\ completed' = b.completed
    /\ progress' = b.progress
    /\ sent' = b.sent

Concurrency == Coalesce(opts.maxConcurrent, Num(DefaultMaxConcurrent))
Total == Len(items)
\* the values an invocation of onProgress may take: does it throw?
MayThrow == IF opts.onProgress = "throws" THEN BOOLEAN ELSE {FALSE}
\* per item: does onProgress throw in the catch block of a task that found no
\* key?  The choice matters only in a turn in which the key is missing.
CatchThrows(n) ==
    IF getApiKey(env).threw THEN [1..n -> MayThrow] ELSE {[i \in 1..n |-> FALSE]}

\* config.ts 22-32: loadConfig reads the file as it is.  An operation that e
\* describes runs with the config file saveConfig last wrote, if it wrote one.
InProcess(e) ==
    LET cfg == IF env = NoEnv THEN e.config ELSE env.config
    IN  [e EXCEPT !.config = cfg,
                  !.noKeyAtCall = /\ Falsy(e.LANGSMITH_API_KEY)
                                  /\ Falsy(cfg["api-key"])
                                  /\ Falsy(cfg["api_key"])]

\* cli.ts 281-326 and 352-377 / 495-532 and 556-579: what the traces / threads
\* action does once its bulk call has settled, in the same turn of the event
\* loop.  c is the command that made the call (a library caller has none), p
\* and r are how the call settled and what it returned.  A rejection reaches
\* handleError; an empty result is an error message and exit status 1.
\* Otherwise stdout mode writes one item, when limit === 1 gave one item, or
\* the list; and directory mode writes the files in order with writeFileSync,
\* which may throw at any file (k files are written then).  No --file option
\* is given.
CommandSettles(o, c, p, r) ==
    LET
        ids == [n \in 1..Len(r) |->
                   <<(IF o.kind = "traces" THEN r[n].trace_id ELSE r[n].thread_id).str>>]
    IN
    IF o.via # "cli" \/ p \notin {"done", "rejected"}
    THEN cmd' = c /\ UNCHANGED dir
    ELSE IF p = "rejected" \/ Len(r) = 0
    THEN cmd' = [c EXCEPT !.exitCode = Num(1)] /\ UNCHANGED dir
    ELSE IF c.mode = "stdout"
    THEN /\ cmd' = [c EXCEPT !.exitCode = Num(0),
                             !.output = IF o.limit = Num(1) /\ Len(r) = 1
                                        THEN "item" ELSE "list"]
         /\ UNCHANGED dir
    ELSE \E k \in 0..Len(r) :
           /\ dir' = [kind |-> o.kind, batch |-> ids, pattern |-> c.pattern,
                      files |-> [n \in 1..k |-> FileName(c.pattern, ids[n], n)]]
           /\ cmd' = [c EXCEPT !.exitCode = IF k = Len(r) THEN Num(0) ELSE Num(1),
                               !.error = IF k = Len(r) THEN NoError ELSE "FsError"]

\* fetchers.ts 196-230 / 277-304: fetchTraces / fetchThreads up to the await of
\* the query, in environment e, called by command c or by a library caller.
\* The body is built first; apiRequest then reads the key (fetchers.ts 22)
\* and issues the request (fetchers.ts 37).
Invoke(o, e, c) ==
    /\ opts' = o
    /\ env' = e
    /\ LET st == StartTime(o)
           key == getApiKey(e)
       IN  IF st.threw
           THEN /\ pc' = "rejected"
                /\ err' = "RangeError"
                /\ CommandSettles(o, c, "rejected", <<>>)
                /\ UNCHANGED <<body, sent>>
           ELSE IF key.threw
           THEN /\ pc' = "rejected"
                /\ err' = key.error
                /\ CommandSettles(o, c, "rejected", <<>>)
                /\ UNCHANGED <<body, sent>>
           ELSE /\ pc' = "query"
                /\ body' = [BaseBody(o) EXCEPT !.start_time = st.value]
                /\ sent' = [sent EXCEPT !.query = @ + 1]
                /\ err' = NoError
                /\ cmd' = c
                /\ UNCHANGED dir
    /\ UNCHANGED <<items, tasks, activeCount, queue, completed, progress, ret,
                   queryData, reordered, scan, meta, single, proj, parse, app>>

MutuallyExclusive(lastNMinutes, since) ==
    lastNMinutes \notin {Undefined, JsNull} /\ Truthy(since)

\* cli.ts 54-58: the regular expression of isUuid, on the characters of s
isUuid(s) ==
    LET
        HexChars == {"0", "1", "2", "3", "4", "5", "6", "7", "8", "9",
                     "a", "b", "c", "d", "e", "f", "A", "B", "C", "D", "E", "F"}
    IN
    /\ Len(s) = 36
    /\ \A i \in 1..36 : IF i \in {9, 14, 19, 24} THEN s[i] = "-" ELSE s[i] \in HexChars

\* cli.ts 221-262 / 431-478: the traces / threads action from its start to its
\* first await, --project-uuid given.  In stdout mode that await is the call of
\* fetchTraces / fetchThreads; in directory mode it is ensureDir (cli.ts 257 /
\* 473), and the bulk call is made only once mkdir has settled.
Command(c) ==
    LET
        FromCli(c0) ==
            MkOpts(c0.kind, "cli", ParseInt(c0.limit), c0.projectUuid,
                   IF Truthy(c0.lastNMinutes) THEN ParseInt(c0.lastNMinutes) ELSE Undefined,
                   c0.since, ParseInt(c0.maxConcurrent),
                   c0.includeMetadata, c0.includeFeedback,
                   IF c0.progress THEN "returns" ELSE "none")
        o == FromCli(c)
        \* if (dir): undefined and the empty string are falsy
        directory == IF c.dir = Undefined THEN FALSE ELSE c.dir.chars # <<>>
        started == [mode |-> IF directory THEN "dir" ELSE "stdout", dir |-> c.dir,
                    pattern |-> c.filenamePattern, exitCode |-> Undefined, output |-> "none",
                    error |-> NoError]
        \* an error message and process.exit(1)
        UsageExit ==
            /\ pc' = "exit"
            /\ err' = "UsageError"
            /\ cmd' = [started EXCEPT !.exitCode = Num(1)]
            /\ opts' = o
            /\ env' = InProcess(KeyEnv)
            /\ UNCHANGED <<body, sent, items, tasks, activeCount, queue, completed,
                           progress, ret, queryData, reordered, scan, meta, single, proj, parse, app, dir>>
    IN
    /\ pc = "idle"
    /\ single = NoSingle
    /\ IF MutuallyExclusive(o.lastNMinutes, c.since) THEN UsageExit
       ELSE IF directory /\ isUuid(c.dir.chars) THEN UsageExit
       ELSE IF directory
       THEN /\ pc' = "mkdir"
            /\ cmd' = started
            /\ opts' = o
            /\ env' = InProcess(KeyEnv)
            /\ UNCHANGED <<body, sent, err, items, tasks, activeCount, queue, completed,
                           progress, ret, queryData, reordered, scan, meta, single, proj, parse, app, dir>>
       ELSE Invoke(o, InProcess(KeyEnv), started)

\* fetchers.ts 263-264 / 342-343: Promise.all rejects with the first task
\* that rejected, or resolves once every task has settled, and the call ends
Ended(b) ==
    IF \E i \in 1..Len(b.tasks) : b.tasks[i].val = "rejected"
    THEN /\ pc' = "rejected" /\ err' = "CallbackError" /\ UNCHANGED ret
         /\ CommandSettles(opts, cmd, "rejected", <<>>)
    ELSE IF \A i \in 1..Len(b.tasks) : b.tasks[i].st = "settled"
    THEN /\ pc' = "done" /\ ret' = Results(b.tasks) /\ UNCHANGED err
         /\ CommandSettles(opts, cmd, "done", Results(b.tasks))
    ELSE pc' = "fanout" /\ UNCHANGED <<ret, err, cmd, dir>>

\* fetchers.ts 235-261 / 322-340: pLimit(maxConcurrent) and the map over the
\* items; the limiter starts the first tasks before any response arrives
StartBatch(its) ==
    LET
        QueuedTask == [st |-> "queued", val |-> "none", data |-> NoData, why |-> NoError]
    IN
    IF ~PLimitAccepts(Concurrency)
    THEN /\ pc' = "rejected"
         /\ err' = "TypeError"
         /\ CommandSettles(opts, cmd, "rejected", <<>>)
         /\ UNCHANGED <<items, tasks, activeCount, queue, completed, progress, sent, ret>>
    ELSE \E thrs \in CatchThrows(Len(its)) :
           LET b0 == [Batch(thrs) EXCEPT !.tasks = [i \in 1..Len(its) |-> QueuedTask],
                                        !.queue = [i \in 1..Len(its) |-> i]]
               b1 == PLimitResume(b0, Concurrency.num)
           IN  /\ items' = its
               /\ SetBatch(b1)
               /\ Ended(b1)

ReturnEmptyAsError ==
    /\ pc' = "rejected"
    /\ err' = "NoRunsError"
    /\ CommandSettles(opts, cmd, "rejected", <<>>)
    /\ UNCHANGED <<items, tasks, activeCount, queue, completed, progress, sent, ret>>

\* fetchers.ts 233 / 320: nothing to fetch
ReturnEmpty ==
    /\ pc' = "done"
    /\ ret' = <<>>
    /\ CommandSettles(opts, cmd, "done", <<>>)
    /\ UNCHANGED <<items, tasks, activeCount, queue, completed, progress, sent, err>>

\* lastNMinutes, since and body are not read again once the query has been
\* awaited (fetchers.ts 227-230 / 301-304): the model drops them there.
Dead == [dead |-> TRUE]

\* fetchers.ts 232 / 306: data.runs || []
RunsOf(data) == IF data.has_runs THEN data.runs ELSE <<>>

\* fetchers.ts 227-238 / 301-326: the query response arrives
QueryResponse ==
    LET
        AfterQuery(o) == [o EXCEPT !.lastNMinutes = Dead, !.since = Dead]
        ThreadQueryPayloads ==
            {[has_runs |-> FALSE, runs |-> <<>>]} \cup
            {[has_runs |-> TRUE, runs |-> [i \in 1..n |-> ThreadRun(IdPool[i])]] : n \in 0..MaxItems}
            \cup
            {[has_runs |-> TRUE, runs |-> <<ThreadRun("a"), ThreadRun("a"), ThreadRun("b")>>]}
        \* /runs/query payloads: data.runs is there or not
        TraceQueryPayloads ==
            LET
                TraceRun(id) ==
                    MkRun(Str(id), Str("success"), Undefined, Undefined, Undefined,
                          Undefined, Undefined, Undefined)
            IN
            {[has_runs |-> FALSE, runs |-> <<>>]} \cup
            {[has_runs |-> TRUE, runs |-> [i \in 1..n |-> TraceRun(IdPool[i])]] : n \in 0..MaxItems}
        \* fetchers.ts 37-52: the error apiRequest throws on a failed outcome
        ApiRequestError(outcome) ==
            CASE outcome = "http_error" -> "ApiError"
              [] outcome = "network_error" -> "TypeError"
              [] outcome = "bad_json" -> "SyntaxError"
              [] OTHER -> NoError
        \* fetchers.ts 310-318 as a whole: the keys of threadIds after the loop
        ThreadIds(runs, limit) == RunScan(StartScan(runs, limit)).threadIds
    IN
    /\ pc = "query"
    /\ \E outcome \in Outcomes :
         IF outcome # "ok"
         THEN /\ pc' = "rejected"
              /\ err' = ApiRequestError(outcome)
              /\ CommandSettles(opts, cmd, "rejected", <<>>)
              /\ UNCHANGED <<items, tasks, activeCount, queue, completed, progress,
                             sent, ret, queryData>>
         ELSE IF opts.kind = "traces"
         THEN \E data \in TraceQueryPayloads :
                /\ queryData' = data
                /\ IF Len(RunsOf(data)) = 0
                   THEN ReturnEmpty
                   ELSE StartBatch([i \in 1..Len(RunsOf(data)) |-> RunsOf(data)[i].id])
         ELSE \E data \in ThreadQueryPayloads :
                LET limit == Coalesce(opts.limit, Num(DefaultThreadLimit))
                    threadIds == ThreadIds(RunsOf(data), limit.num)
                IN  /\ queryData' = data
                    /\ IF Len(threadIds) = 0 THEN ReturnEmpty ELSE StartBatch(threadIds)
    /\ opts' = AfterQuery(opts)
    /\ body' = NoBody
    /\ UNCHANGED <<reordered, scan, meta, env, single, proj, parse, app>>

\* a task settled: the batch after it, and the end of the call when
\* Promise.all settles (once the call has rejected, the tasks go on unobserved)
Finish(b) ==
    /\ SetBatch(b)
    /\ reordered' = (reordered \/ \E i, j \in 1..Len(b.tasks) :
                        /\ i < j
                        /\ tasks[j].st # "settled" /\ b.tasks[j].st = "settled"
                        /\ b.tasks[i].st # "settled")
    /\ IF pc # "fanout" THEN UNCHANGED <<pc, ret, err, cmd, dir>> ELSE Ended(b)
    /\ UNCHANGED <<opts, body, items, queryData, scan, meta, env, single, proj, parse, app>>

\* ------------------------------------------------- single-item operations
BulkVars == <<pc, opts, body, sent, items, tasks, activeCount, queue, completed,
              progress, ret, err, queryData, reordered, cmd>>

\* The state of one fetchTrace / fetchThread call or one run of the thread
\* command: where it is, what it was given, the requests it issued by kind,
\* the response to its run / preview request (resp), the run it decoded, the
\* response to its feedback request (fb), and how it ended.
NewSingle(op, id, options, scope) ==
    LET
        NoErr == [name |-> "none"]
    IN
    [op |-> op, pc |-> "start", id |-> id, options |-> options, scope |-> scope,
     sent |-> [run |-> 0, feedback |-> 0, preview |-> 0, lookup |-> 0],
     resp |-> NoData, run |-> NoData, fb |-> NoData, result |-> NoData, error |-> NoErr,
     called |-> FALSE, written |-> FALSE, exitCode |-> Undefined]

SingleReject(s, error) == [s EXCEPT !.pc = "rejected", !.error = error]

\* options that default to true
IncludeFlagDefaultTrue(options, name) ==
    IF options = Undefined THEN TRUE
    ELSE Coalesce(options[name], Bool(TRUE)).bool

\* fetchers.ts 126-127: options?.includeX ?? false
IncludeFlag(options, name) ==
    IF options = Undefined THEN FALSE
    ELSE Coalesce(options[name], Bool(FALSE)).bool

SingleEnvs ==
    LET
        ConfigKeyEnv == MkEnv(Undefined, Undefined, Undefined, [EmptyConfig EXCEPT !["api_key"] = Str("key-cfg")])
    IN
    {KeyEnv, ConfigKeyEnv} \cup NoKeyEnvs

CallFetchTrace ==
    LET
        \* fetchers.ts 122-132: fetchTrace up to the await of the run request;
        \* apiRequest reads the key (line 22) before it calls fetch() (line 37)
        StartFetchTrace(id, options, e) ==
            LET s == [NewSingle("fetchTrace", id, options, Undefined) EXCEPT !.called = TRUE]
            IN  IF getApiKey(e).threw
                THEN SingleReject(s, JsError("ConfigError"))
                ELSE [s EXCEPT !.pc = "run", !.sent.run = 1]
        TraceOptions ==
            {Undefined} \cup
            {[includeMetadata |-> m, includeFeedback |-> f] :
                m \in {Undefined, Bool(FALSE), Bool(TRUE)}, f \in {Undefined, Bool(FALSE), Bool(TRUE)}}
    IN
    /\ pc = "idle"
    /\ single = NoSingle
    /\ \E options \in TraceOptions, e \in SingleEnvs :
          /\ env' = InProcess(e)
          /\ single' = StartFetchTrace(Str("t-1"), options, InProcess(e))
    /\ UNCHANGED <<BulkVars, scan, meta, proj, parse, app, dir>>

\* cli.ts 17-33: handleError prints the error and exits with status 1
HandleError(s) == [s EXCEPT !.pc = "exit", !.exitCode = Num(1)]

\* cli.ts 103-107 / 150-154: the trace / thread command once its fetchTrace /
\* fetchThread call has settled: the catch block hands a rejection to
\* handleError; a result is formatted and written, to stdout as no --file
\* option is given.  A call made by a library caller just settles.
CommandEnd(s) ==
    IF s.op \notin {"trace", "thread"} \/ s.pc \notin {"done", "rejected"} THEN s
    ELSE IF s.pc = "rejected" THEN HandleError(s)
    ELSE [s EXCEPT !.written = TRUE, !.exitCode = Num(0)]

\* cli.ts 98-108: the trace command up to the await of the run request.
\* commander gives a flag that is absent as undefined, one that is given as true.
CallTraceCommand ==
    LET
        TraceFlags == {[includeMetadata |-> m, includeFeedback |-> f] :
                          m \in {Undefined, Bool(TRUE)}, f \in {Undefined, Bool(TRUE)}}
        StartTraceCommand(options, e) ==
            LET s == [NewSingle("trace", Str("t-1"), options, Undefined) EXCEPT !.called = TRUE]
            IN  IF getApiKey(e).threw
                THEN HandleError(SingleReject(s, JsError("ConfigError")))
                ELSE [s EXCEPT !.pc = "run", !.sent.run = 1]
    IN
    /\ pc = "idle"
    /\ single = NoSingle
    /\ \E options \in TraceFlags, e \in SingleEnvs :
          /\ env' = InProcess(e)
          /\ single' = StartTraceCommand(options, InProcess(e))
    /\ UNCHANGED <<BulkVars, scan, meta, proj, parse, app, dir>>

SingleRunResponse ==
    LET
        \* fetchers.ts 129-152: the run response arrives
        TraceRunArrives(s0, r) ==
            LET a == apiRequest(r)
                s == [s0 EXCEPT !.resp = r]
            IN  IF a.threw THEN SingleReject(s, a.error)
                ELSE LET t == TraceFromRun(s.id, a.value,
                                           IncludeFlag(s.options, "includeMetadata"),
                                           IncludeFlag(s.options, "includeFeedback"))
                     IN  IF t.needFeedback
                         THEN \* fetchers.ts 100: fetchFeedback reads the key anew
                              IF getApiKey(env).threw
                              THEN SingleReject([s EXCEPT !.run = a.value], JsError("ConfigError"))
                              ELSE [s EXCEPT !.pc = "feedback", !.run = a.value, !.result = t.result,
                                             !.sent.feedback = @ + 1]
                         ELSE [s EXCEPT !.pc = "done", !.run = a.value, !.result = t.result]
        \* /runs/{id} payloads of a single fetchTrace
        SingleRunPayloads ==
            {MkRun(Str("t-1"), Str("success"), Str("1970-01-01T00:00:00Z"), Str("1970-01-01T00:00:01Z"),
                   Undefined, stats, messages, Undefined) :
                stats \in {Undefined, JsNull, Arr(<<>>), Arr(<<Num(0)>>), Arr(<<Num(0), Num(2)>>),
                           Arr(<<Str("2")>>), Arr(<<Num(-1), NaN>>)},
                messages \in {Undefined, Arr(<<"m1", "m2">>)}}
            \cup
            {MkRun(Str("t-1"), Str("success"), Str("1970-01-01T00:00:00Z"), Str("1970-01-01T00:00:01Z"),
                   Undefined, Undefined, messages, outputs) :
                messages \in {Undefined, JsNull, Arr(<<>>), Arr(<<"m1", "m2">>)},
                outputs \in {Undefined, JsNull, [messages |-> Undefined], [messages |-> Arr(<<>>)],
                             [messages |-> Arr(<<"m3">>)], [messages |-> Arr(<<"m2", "m1">>)]}}
    IN
    /\ single # NoSingle
    /\ single.op \in {"fetchTrace", "trace"}
    /\ single.pc = "run"
    /\ \E r \in ResponsesWith(SingleRunPayloads) : single' = CommandEnd(TraceRunArrives(single, r))
    /\ UNCHANGED <<BulkVars, scan, meta, env, proj, parse, app, dir>>

SingleFeedbackResponse ==
    LET
        \* fetchers.ts 146 and 104-119: the feedback response arrives
        TraceFeedbackArrives(s, r) ==
            LET f == fetchFeedback(OutcomeOf(r), r.json)
            IN  IF f.threw THEN SingleReject([s EXCEPT !.fb = r], JsError(f.error))
                ELSE [s EXCEPT !.pc = "done", !.fb = r, !.result.feedback = f.value]
    IN
    /\ single # NoSingle
    /\ single.op \in {"fetchTrace", "trace"}
    /\ single.pc = "feedback"
    /\ \E r \in ResponsesWith(FeedbackPayloads) :
          single' = CommandEnd(TraceFeedbackArrives(single, r))
    /\ UNCHANGED <<BulkVars, scan, meta, env, proj, parse, app, dir>>

\* fetchers.ts 155-162: fetchThread up to the await of the preview request
StartFetchThread(s, scope, e) ==
    LET s1 == [s EXCEPT !.called = TRUE, !.scope = scope]
    IN  IF getApiKey(e).threw
        THEN SingleReject(s1, JsError("ConfigError"))
        ELSE [s1 EXCEPT !.pc = "preview", !.sent.preview = 1]

CallFetchThread ==
    /\ pc = "idle"
    /\ single = NoSingle
    /\ \E e \in SingleEnvs :
          /\ env' = InProcess(e)
          /\ single' = StartFetchThread(NewSingle("fetchThread", Str("th-1"), Undefined, Undefined),
                                        Project, InProcess(e))
    /\ UNCHANGED <<BulkVars, scan, meta, proj, parse, app, dir>>

\* a thread action that does not test the project identifier
ThreadCommandUnchecked(s, projectUuid, e) ==
    LET s1 == StartFetchThread(s, projectUuid, e)
    IN  IF s1.pc = "rejected" THEN HandleError(s1) ELSE s1

\* cli.ts 140-149: the thread action once projectUuid has its value
ThreadCommandResolved(s, projectUuid, e) ==
    IF Falsy(projectUuid)
    THEN [s EXCEPT !.pc = "exit", !.exitCode = Num(1), !.error = JsError("UsageError"),
                   !.scope = projectUuid]
    ELSE LET s1 == StartFetchThread(s, projectUuid, e)
         IN  IF s1.pc = "rejected" THEN HandleError(s1) ELSE s1

CallThreadCommand ==
    LET
        ThreadEnvs ==
            {MkEnv(k, u, n, [EmptyConfig EXCEPT !["project-uuid"] = c]) :
                k \in {Undefined, Str("key-env")}, u \in {Undefined, Str("proj-env")},
                n \in {Undefined, Str("my-project")}, c \in {Undefined, Str("proj-cfg")}}
        ThreadFlags == {Undefined, Str(""), Project}
        \* cli.ts 137-139: opts.projectUuid || (await config.getProjectUuid()), in a
        \* process that has made no getProjectUuid call before
        StartThreadCommand(flag, e) ==
            LET s == NewSingle("thread", Str("th-1"), [projectUuid |-> flag], Undefined)
            IN  IF Truthy(flag) THEN ThreadCommandResolved(s, flag, e)
                ELSE LET g == ProjectUuidStep(e, JsNull)
                     IN  CASE g.kind = "return" -> ThreadCommandResolved(s, g.value, e)
                           [] g.kind = "throw" -> HandleError(SingleReject(s, JsError("ConfigError")))
                           [] OTHER -> [s EXCEPT !.pc = "lookup", !.sent.lookup = 1]
    IN
    /\ pc = "idle"
    /\ single = NoSingle
    /\ \E flag \in ThreadFlags, e \in ThreadEnvs :
          /\ env' = InProcess(e)
          /\ single' = StartThreadCommand(flag, InProcess(e))
    /\ UNCHANGED <<BulkVars, scan, meta, proj, parse, app, dir>>

\* config.ts 116-118 and cli.ts 138-149: the project lookup of the thread
\* command settles
SingleLookupResponse ==
    /\ single # NoSingle
    /\ single.pc = "lookup"
    /\ \E r \in ResponsesWith(SessionPayloads) :
          LET l == lookupProjectUuidByName(r)
          IN  single' = IF l.threw THEN HandleError(SingleReject(single, l.error))
                        ELSE ThreadCommandResolved(single, l.value, env)
    /\ UNCHANGED <<BulkVars, scan, meta, env, proj, parse, app, dir>>

\* the preview response arrives: fetchThread settles, and with it the thread
\* command
SinglePreviewResponse ==
    LET
        \* fetchers.ts 159-181: the preview response arrives
        ThreadPreviewArrives(s0, r) ==
            LET a == apiRequest(r)
                s == [s0 EXCEPT !.resp = r]
            IN  IF a.threw THEN SingleReject(s, a.error)
                ELSE LET t == ThreadFromPreview(s.id, a.value)
                     IN  IF t.threw THEN SingleReject(s, JsError(t.error))
                         ELSE [s EXCEPT !.pc = "done", !.result = t.value]
    IN
    /\ single # NoSingle
    /\ single.pc = "preview"
    /\ \E r \in ResponsesWith(PreviewPayloads) :
          single' = CommandEnd(ThreadPreviewArrives(single, r))
    /\ UNCHANGED <<BulkVars, scan, meta, env, proj, parse, app, dir>>

CallApi ==
    /\ pc = "idle"
    /\ single = NoSingle
    /\ \E o \in FetchOpts : Invoke(o, InProcess(KeyEnv), cmd)
\* a bulk call in a process that has no API key in its environment; the
\* config file may hold one
CallApiNoKey ==
    LET
        \* the calls made when the config file holds a key: their tasks report to
        \* a callback that may throw, or look up feedback
        ReportingOpts ==
            {MkOpts(kind, "api", Undefined, Project, Undefined, Undefined, Num(1), FALSE, FALSE, "throws") :
                kind \in {"traces", "threads"}}
            \cup
            {MkOpts("traces", "api", Undefined, Project, Undefined, Undefined, Num(2), FALSE, TRUE, "returns")}
    IN
    /\ pc = "idle"
    /\ single = NoSingle
    /\ \E o \in QueryOpts \cup ReportingOpts, e \in NoKeyEnvs :
          /\ o \in ReportingOpts \/ getApiKey(InProcess(e)).threw
          /\ Invoke(o, InProcess(e), cmd)
CallCli == \E c \in CliOpts : Command(c)

\* cli.ts 257-279 / 473-493: mkdir settles.  When it failed, the catch block
\* hands the error to handleError; otherwise the action calls fetchTraces /
\* fetchThreads, which reads the key from the environment as it is by then:
\* the process may have lost LANGSMITH_API_KEY while mkdir was pending.
EnsureDirSettles ==
    /\ pc = "mkdir"
    /\ \/ /\ pc' = "exit"
          /\ err' = "FsError"
          /\ cmd' = [cmd EXCEPT !.exitCode = Num(1)]
          /\ UNCHANGED <<opts, env, body, sent, items, tasks, activeCount, queue, completed,
                         progress, ret, queryData, reordered, scan, meta, single, proj, parse, app, dir>>
       \/ /\ \E e \in {env, [env EXCEPT !.LANGSMITH_API_KEY = Undefined]} :
                Invoke(opts, InProcess(e), cmd)

\* config.ts 34-37: saveConfig rewrites the config file, at any moment of the
\* process and any number of times; every later getApiKey / getConfigValue
\* reads the new file, also those of an operation that is under way.  yaml.load
\* gives back what yaml.dump was given: an object of strings.  Before the
\* operation of the process begins, the variables of the environment are not
\* yet told (they come with the call).
SaveConfig ==
    LET
        Saved == {EmptyConfig,
                  [EmptyConfig EXCEPT !["api_key"] = Str("key-cfg")],
                  [EmptyConfig EXCEPT !["project_uuid"] = Str("proj-cfg")]}
    IN
    /\ \E cfg \in Saved :
          env' = IF env = NoEnv
                 THEN MkEnv(Undefined, Undefined, Undefined, cfg)
                 ELSE [env EXCEPT !.config = cfg]
    /\ UNCHANGED <<BulkVars, scan, meta, single, proj, parse, app, dir>>
RunResponse ==
    LET
        \* a task of fetchTraces: the response of GET /runs/{id} arrives
        TraceResponse(i) ==
            LET
                \* /runs/{id} payloads of the batch
                RunPayloads ==
                    {MkRun(Str("run"), Str("success"), Str("1970-01-01T00:00:00Z"),
                           Str("1970-01-01T00:00:01Z"), Undefined, stats, Arr(<<"m1">>), Undefined) :
                        stats \in {Undefined, Arr(<<Num(1)>>)}}
            IN
            /\ opts.kind = "traces"
            /\ tasks[i].st = "run"
            /\ \E outcome \in Outcomes, thr1 \in MayThrow, thr2 \in MayThrow,
                  thrs \in CatchThrows(Len(tasks)) :
                 IF outcome # "ok"
                 THEN /\ thr2 = FALSE
                      /\ Finish(PLimitNext(TaskCatch(Batch(thrs), i, outcome, Total,
                                                     opts.onProgress, thr1),
                                           Concurrency.num))
                 ELSE \E run \in RunPayloads :
                        LET t == TraceFromRun(items[i], run, opts.includeMetadata, opts.includeFeedback)
                        IN  IF t.needFeedback /\ getApiKey(env).threw
                            THEN \* fetchers.ts 100: fetchFeedback reads the key anew and
                                 \* throws; no feedback request is sent
                                 /\ thr2 = FALSE
                                 /\ Finish(PLimitNext(TaskCatch(Batch(thrs), i, "no_key_feedback",
                                                                Total, opts.onProgress, thr1),
                                                      Concurrency.num))
                            ELSE IF t.needFeedback
                            THEN /\ thr1 = FALSE /\ thr2 = FALSE
                                 /\ tasks' = [tasks EXCEPT ![i].st = "feedback", ![i].data = t.result]
                                 /\ sent' = [sent EXCEPT !.feedback = @ + 1]
                                 /\ UNCHANGED <<pc, opts, body, items, activeCount, queue, completed,
                                                progress, ret, err, queryData, reordered, scan, meta,
                                                env, single, proj, parse, app, dir, cmd>>
                            ELSE Finish(PLimitNext(TaskReturn(Batch(thrs), i, t.result, Total,
                                                              opts.onProgress, thr1, thr2),
                                                   Concurrency.num))
    IN
    \E i \in 1..Len(tasks) : TraceResponse(i)
FbResponse ==
    LET
        \* a task of fetchTraces: the response of GET /feedback arrives
        FeedbackResponse(i) ==
            /\ opts.kind = "traces"
            /\ tasks[i].st = "feedback"
            /\ \E outcome \in Outcomes, payload \in FeedbackPayloads,
                  thr1 \in MayThrow, thr2 \in MayThrow, thrs \in CatchThrows(Len(tasks)) :
                 LET f == fetchFeedback(outcome, payload)
                 IN  IF f.threw
                     THEN /\ thr2 = FALSE
                          /\ Finish(PLimitNext(TaskCatch(Batch(thrs), i,
                                                         IF outcome = "ok" THEN "bad_payload"
                                                                           ELSE outcome,
                                                         Total, opts.onProgress, thr1),
                                               Concurrency.num))
                     ELSE Finish(PLimitNext(TaskReturn(Batch(thrs), i,
                                                       [tasks[i].data EXCEPT !.feedback = f.value],
                                                       Total, opts.onProgress, thr1, thr2),
                                            Concurrency.num))
    IN
    \E i \in 1..Len(tasks) : FeedbackResponse(i)
PreviewResponse ==
    LET
        \* a task of fetchThreads: the response of GET /runs/threads/{id} arrives
        ThreadResponse(i) ==
            /\ opts.kind = "threads"
            /\ tasks[i].st = "run"
            /\ \E outcome \in Outcomes, thr1 \in MayThrow, thr2 \in MayThrow,
                  thrs \in CatchThrows(Len(tasks)) :
                 IF outcome # "ok"
                 THEN /\ thr2 = FALSE
                      /\ Finish(PLimitNext(TaskCatch(Batch(thrs), i, outcome, Total,
                                                     opts.onProgress, thr1),
                                           Concurrency.num))
                 ELSE \E payload \in PreviewPayloads :
                        LET t == ThreadFromPreview(items[i], payload)
                        IN  IF t.threw
                            THEN /\ thr2 = FALSE
                                 /\ Finish(PLimitNext(TaskCatch(Batch(thrs), i, "bad_payload", Total,
                                                                opts.onProgress, thr1),
                                                      Concurrency.num))
                            ELSE Finish(PLimitNext(TaskReturn(Batch(thrs), i, t.value, Total,
                                                              opts.onProgress, thr1, thr2),
                                                   Concurrency.num))
    IN
    \E i \in 1..Len(tasks) : ThreadResponse(i)

Next ==
    \/ CallApi
    \/ CallApiNoKey
    \/ CallCli
    \/ EnsureDirSettles
    \/ SaveConfig
    \/ QueryResponse
    \/ RunResponse
    \/ FbResponse
    \/ PreviewResponse
    \/ CallFetchTrace
    \/ CallFetchThread
    \/ CallThreadCommand
    \/ CallTraceCommand
    \/ SingleRunResponse
    \/ SingleFeedbackResponse
    \/ SinglePreviewResponse
    \/ SingleLookupResponse

Spec == Init /\ [][Next]_vars

\* ------------------------------------------- the thread-id scan on its own

IdleBulk ==
    /\ pc = "idle"
    /\ opts = NoOpts
    /\ body = NoBody
    /\ sent = NoSent
    /\ items = <<>>
    /\ tasks = <<>>
    /\ activeCount = 0
    /\ queue = <<>>
    /\ completed = 0
    /\ progress = <<>>
    /\ ret = <<>>
    /\ err = NoError
    /\ queryData = NoData
    /\ reordered = FALSE
    /\ single = NoSingle
    /\ cmd = NoCmd

InitScan ==
    LET
        ScanLimits == (0..MaxLimit) \cup {DefaultThreadLimit}
        ScanRunLists ==
            LET
                \* The metadata shapes of the runs of a thread query
                ScanRuns ==
                    {ThreadRun("a"), ThreadRun("b"),
                     MkRun(Str("run"), Undefined, Undefined, Undefined,
                           [metadata |-> [thread_id |-> Str("c"), session_id |-> Str("a")]],
                           Undefined, Undefined, Undefined),
                     MkRun(Str("run"), Undefined, Undefined, Undefined,
                           [metadata |-> [thread_id |-> Undefined, session_id |-> Str("a")]],
                           Undefined, Undefined, Undefined),
                     MkRun(Str("run"), Undefined, Undefined, Undefined,
                           [metadata |-> [thread_id |-> Str(""), session_id |-> Str("b")]],
                           Undefined, Undefined, Undefined),
                     MkRun(Str("run"), Undefined, Undefined, Undefined, Undefined,
                           Undefined, Undefined, Undefined)}
            IN
            UNION {[1..n -> ScanRuns] : n \in 0..MaxRuns}
    IN
    /\ IdleBulk
    /\ app = NoApp
    /\ dir = NoDir
    /\ env = NoEnv
    /\ meta = NoMeta
    /\ parse = NoParse
    /\ proj = NoProj
    /\ scan \in {StartScan(runs, limit) : runs \in ScanRunLists, limit \in ScanLimits}

\* one turn of the loop of fetchers.ts 311-318
ScanLoop ==
    /\ scan # NoScan
    /\ ~scan.stopped
    /\ scan' = ScanStep(scan)
    /\ UNCHANGED <<pc, opts, body, sent, items, tasks, activeCount, queue, completed,
                   progress, ret, err, queryData, reordered, meta, env, single, proj, parse, app, dir, cmd>>

SpecScan == InitScan /\ [][ScanLoop]_vars

\* --------------------------------------------- extractRunMetadata on its own
TimeValues ==
    {Undefined, JsNull, Str(""), Str("not-a-date"), Str("1970-01-01T00:00:00Z"),
     Str("1970-01-01T00:00:01Z"), Str("1970-01-01T00:00:02.500Z")}

InitMeta ==
    LET
        MetaRuns ==
            {MkRun(Str("run"), status, start, end, extra, stats, Undefined, Undefined) :
                status \in {Undefined, Str("success")},
                start \in TimeValues, end \in TimeValues,
                extra \in {Undefined, [metadata |-> Undefined]},
                stats \in {Undefined, Arr(<<>>), Arr(<<Num(0)>>), Arr(<<Num(0), Num(2)>>)}}
    IN
    /\ IdleBulk
    /\ app = NoApp
    /\ dir = NoDir
    /\ env = NoEnv
    /\ scan = NoScan
    /\ parse = NoParse
    /\ proj = NoProj
    /\ meta \in {[run |-> run, applied |-> FALSE, out |-> NoData] : run \in MetaRuns}

\* one call of extractRunMetadata
ExtractMetadata ==
    /\ meta # NoMeta
    /\ ~meta.applied
    /\ meta' = [meta EXCEPT !.applied = TRUE, !.out = extractRunMetadata(meta.run)]
    /\ UNCHANGED <<pc, opts, body, sent, items, tasks, activeCount, queue, completed,
                   progress, ret, err, queryData, reordered, scan, env, single, proj, parse, app, dir, cmd>>

SpecMeta == InitMeta /\ [][ExtractMetadata]_vars

\* ------------------------------------------------- getApiKey on its own
\* One getApiKey call per behaviour, over the values LANGSMITH_API_KEY and
\* the two spellings of the config key may hold (yaml gives null for a key
\* written without a value).
InitKey ==
    /\ IdleBulk
    /\ scan = NoScan
    /\ meta = NoMeta
    /\ parse = NoParse
    /\ proj = NoProj
    /\ dir = NoDir
    /\ env \in {MkEnv(k, Undefined, Undefined,
                      [EmptyConfig EXCEPT !["api-key"] = h, !["api_key"] = u]) :
                    k \in {Undefined, Str(""), Str("key-env")},
                    h \in {Undefined, JsNull, Str(""), Str("key-cfg")},
                    u \in {Undefined, JsNull, Str(""), Str("key-cfg"), Str("key-alt")}}
    /\ app = [fn |-> "getApiKey", applied |-> FALSE, out |-> NoData]

\* config.ts 49-60: the call
GetApiKey ==
    /\ app # NoApp
    /\ app.fn = "getApiKey"
    /\ ~app.applied
    /\ app' = [app EXCEPT !.applied = TRUE, !.out = getApiKey(env)]
    /\ UNCHANGED <<BulkVars, scan, meta, env, single, proj, parse, dir>>

SpecKey == InitKey /\ [][GetApiKey]_vars

\* ------------------------------------------- sanitizeFilename on its own
\* One sanitizeFilename call per behaviour: every short name over safe and
\* unsafe characters, and names about as long as the length limit.
InitSanitize ==
    LET
        NameChars == {"a", ".", " ", "/", "-"}
        ShortNames == UNION {[1..n -> NameChars] : n \in 0..MaxNameLen}
        LongNames ==
            {[i \in 1..n |-> "a"] \o t :
                n \in (MaxFilename - 2)..(MaxFilename + 1),
                t \in {<<>>, <<".">>, <<".", "a">>, <<"/", ".">>}}
    IN
    /\ IdleBulk
    /\ env = NoEnv
    /\ scan = NoScan
    /\ meta = NoMeta
    /\ parse = NoParse
    /\ proj = NoProj
    /\ dir = NoDir
    /\ app \in {[fn |-> "sanitizeFilename", name |-> s, applied |-> FALSE, out |-> <<>>] :
                    s \in ShortNames \cup LongNames}

\* utils.ts 3-10: the call
SanitizeFilename ==
    /\ app # NoApp
    /\ app.fn = "sanitizeFilename"
    /\ ~app.applied
    /\ app' = [app EXCEPT !.applied = TRUE, !.out = sanitizeFilename(app.name)]
    /\ UNCHANGED <<BulkVars, scan, meta, env, single, proj, parse, dir>>

SpecSanitize == InitSanitize /\ [][SanitizeFilename]_vars

\* ------------------------------------------- directory mode on its own
\* The save loop of the traces / threads command in directory mode, once the
\* bulk fetch returned a batch.  The items of a batch have distinct ids: run
\* ids as the service assigns them, thread ids as the scan deduplicated them
\* (any string the runs' metadata holds).
InitDir ==
    LET
        IdsOf(kind) ==
            IF kind = "traces"
            THEN {<<"a">>, <<"b">>, <<"a", "-", "b">>, <<"a", "-", "a">>}
            ELSE {<<"a">>, <<"a", "/", "b">>, <<"a", "_", "b">>, <<"a", " ", "b">>}
        Batches(kind) ==
            {b \in UNION {[1..n -> IdsOf(kind)] : n \in 1..MaxItems} :
                \A i, j \in DOMAIN b : i # j => b[i] # b[j]}
        Patterns ==
            {<<"{id}", ".", "j", "s", "o", "n">>,
             <<"{id}">>,
             <<"o", ".", "j", "s", "o", "n">>,
             <<"{index}", "-", "{id}">>,
             <<"t", "{idx}", ".", "j", "s", "o", "n">>}
    IN
    /\ IdleBulk
    /\ env = NoEnv
    /\ scan = NoScan
    /\ meta = NoMeta
    /\ parse = NoParse
    /\ proj = NoProj
    /\ app = NoApp
    /\ dir \in {[kind |-> k, batch |-> b, pattern |-> p, files |-> <<>>] :
                    k \in {"traces"}, b \in Batches("traces"), p \in Patterns}
               \cup
               {[kind |-> k, batch |-> b, pattern |-> p, files |-> <<>>] :
                    k \in {"threads"}, b \in Batches("threads"), p \in Patterns}

\* cli.ts 292-311 / 506-520: one turn of the save loop; files are the paths
\* written so far below the output directory, in order
SaveItem ==
    /\ dir # NoDir
    /\ Len(dir.files) < Len(dir.batch)
    /\ LET n == Len(dir.files) + 1
       IN  dir' = [dir EXCEPT !.files = Append(@, FileName(dir.pattern, dir.batch[n], n))]
    /\ UNCHANGED <<BulkVars, scan, meta, env, single, proj, parse, app>>

SpecDir == InitDir /\ [][SaveItem]_vars

\* ------------------------------------------ the message-stream parser on its own
\* Blobs: up to MaxSegments texts joined by two or three newlines
SegmentTexts ==
    {<<>>, <<"SP", "M1", "NL">>, <<"M2">>, <<"X">>, <<"M1", "NL", "M2">>,
     <<"LB", "NL", "RB">>, <<"LB">>, <<"RB">>}

RECURSIVE BlobsOf(_)
BlobsOf(n) ==
    LET
        Joints == {<<"NL", "NL">>, <<"NL", "NL", "NL">>}
    IN
    IF n <= 1 THEN SegmentTexts
    ELSE {b \o j \o t : b \in BlobsOf(n - 1), j \in Joints, t \in SegmentTexts}

InitParse ==
    LET
        Blobs == UNION {BlobsOf(n) : n \in 1..MaxSegments}
    IN
    /\ IdleBulk
    /\ app = NoApp
    /\ dir = NoDir
    /\ env = NoEnv
    /\ scan = NoScan
    /\ meta = NoMeta
    /\ proj = NoProj
    /\ parse \in {[blob |-> b, applied |-> FALSE, out |-> NoData] : b \in Blobs}

\* fetchThread("t-1", scope) once the preview payload with the blob is decoded
ParseBlob ==
    /\ parse # NoParse
    /\ ~parse.applied
    /\ parse' = [parse EXCEPT
                    !.applied = TRUE,
                    !.out = ThreadFromPreview(Str("t-1"),
                               [previews |-> [all_messages |-> Arr(parse.blob)]])]
    /\ UNCHANGED <<pc, opts, body, sent, items, tasks, activeCount, queue, completed,
                   progress, ret, err, queryData, reordered, scan, meta, env, single, proj, app, dir, cmd>>

SpecParse == InitParse /\ [][ParseBlob]_vars

\* --------------------------------------------- getProjectUuid in one process

\* config.ts 14: projectUuidCache starts as null; no call has been made
InitProject ==
    LET
        \* The environments of the process: the project given by name, by id, by
        \* the config file, or not at all
        ProjectEnvs ==
            {MkEnv(Str("key-env"), u, n, [EmptyConfig EXCEPT !["project_uuid"] = c]) :
                u \in {Undefined, Str("proj-env")}, n \in {Undefined, Str("my-project")},
                c \in {Undefined, Str("proj-cfg")}}
    IN
    /\ IdleBulk
    /\ app = NoApp
    /\ dir = NoDir
    /\ scan = NoScan
    /\ meta = NoMeta
    /\ parse = NoParse
    /\ env \in ProjectEnvs
    /\ proj = [cache |-> JsNull, cachedFor |-> Undefined, calls |-> <<>>, sent |-> 0]

\* config.ts 105-116: a caller calls getProjectUuid; the call runs up to its
\* await of the lookup, or returns
GetProjectUuid ==
    /\ Len(proj.calls) < MaxCalls
    /\ LET g == ProjectUuidStep(env, proj.cache)
           call == [pc |-> "done", value |-> g.value, name |-> env.LANGSMITH_PROJECT,
                    cached |-> FALSE, of |-> Undefined]
       IN  proj' = CASE g.kind = "return" ->
                          IF Falsy(env.LANGSMITH_PROJECT_UUID) /\ Truthy(env.LANGSMITH_PROJECT)
                          THEN [proj EXCEPT !.calls = Append(@, [call EXCEPT !.cached = TRUE,
                                                                             !.of = proj.cachedFor])]
                          ELSE [proj EXCEPT !.calls = Append(@, call)]
                     [] g.kind = "throw" ->
                          [proj EXCEPT !.calls = Append(@, [call EXCEPT !.pc = "rejected"])]
                     [] OTHER ->
                          [proj EXCEPT !.calls = Append(@, [call EXCEPT !.pc = "lookup"]),
                                       !.sent = @ + 1]
    /\ UNCHANGED <<BulkVars, scan, meta, env, single, parse, app, dir>>

ProjectLookupResponse ==
    LET
        \* config.ts 116-118: the lookup of call i settles; on success the call
        \* stores the id in projectUuidCache and returns it
        ProjectLookupSettles(i) ==
            /\ proj.calls[i].pc = "lookup"
            /\ \E r \in ResponsesWith(SessionPayloads) :
                  LET l == lookupProjectUuidByName(r)
                  IN  proj' = IF l.threw
                              THEN [proj EXCEPT !.calls[i].pc = "rejected"]
                              ELSE [proj EXCEPT !.calls[i].pc = "done",
                                                !.calls[i].value = l.value,
                                                !.calls[i].of = proj.calls[i].name,
                                                !.cache = l.value,
                                                !.cachedFor = proj.calls[i].name]
            /\ UNCHANGED <<BulkVars, scan, meta, env, single, parse, app, dir>>
    IN
    \E i \in 1..Len(proj.calls) : ProjectLookupSettles(i)

\* The process names another project: process.env.LANGSMITH_PROJECT is
\* assigned between two calls.  config.ts 111 reads it anew in every call.
ChangeProjectName ==
    /\ env.LANGSMITH_PROJECT = Str("my-project")
    /\ env' = [env EXCEPT !.LANGSMITH_PROJECT = Str("other-project")]
    /\ UNCHANGED <<BulkVars, scan, meta, single, proj, parse, app, dir>>

NextProject == GetProjectUuid \/ ProjectLookupResponse \/ ChangeProjectName \/ SaveConfig

SpecProject == InitProject /\ [][NextProject]_vars

\* Under weak fairness of the response actions every network call that is
\* outstanding eventually settles.
Fairness ==
    /\ WF_vars(QueryResponse)
    /\ WF_vars(RunResponse)
    /\ WF_vars(FbResponse)
    /\ WF_vars(PreviewResponse)

SpecFair == Init /\ [][Next]_vars /\ Fairness

\* ================================================================ claims
Started == pc \notin {"idle", "exit"}
InFlight == {i \in 1..Len(tasks) : tasks[i].st \in {"run", "feedback"}}
SettledTasks == {i \in 1..Len(tasks) : tasks[i].st = "settled"}
\* the item's fetch failed (as opposed to: its progress callback threw)
FetchFailed(i) == tasks[i].st = "settled" /\ tasks[i].why \notin {NoError, "callback"}
WellBehavedCallback == opts.onProgress # "throws"
IdOf(d) == IF "trace_id" \in DOMAIN d THEN d.trace_id ELSE d.thread_id

\* C1: with maxConcurrent = k >= 1, at every moment of the batch at most k
\* single-item fetches (a trace's feedback request included) have started and
\* not yet settled.
C1_BoundedInFlight ==
    (Started /\ PLimitAccepts(Concurrency)) =>
        /\ Cardinality(InFlight) <= Concurrency.num
        /\ sent.item - Cardinality(SettledTasks) <= Concurrency.num

C1_Witness ==
    /\ pc = "fanout"
    /\ opts.kind = "traces"
    /\ Concurrency.num = 2
    /\ Cardinality(InFlight) = 2
    /\ \E i \in InFlight : tasks[i].st = "feedback"
    /\ Len(queue) > 0

\* C2: the returned array is the item list with the failed items removed:
\* the j-th element returned is the result of the j-th item that did not
\* fail, and nothing stands for a failed item.
C2_OrderPreserved ==
    (Started /\ pc = "done") =>
        /\ Len(ret) = Cardinality({i \in 1..Len(items) : tasks[i].val = "result"})
        /\ \A j \in 1..Len(ret) :
             \E i \in 1..Len(items) :
                /\ tasks[i].val = "result"
                /\ IdOf(ret[j]) = items[i]
                /\ j = Cardinality({h \in 1..i : tasks[h].val = "result"})
        /\ WellBehavedCallback =>
              \A i \in 1..Len(items) : tasks[i].val = "result" <=> ~FetchFailed(i)

C2_Witness ==
    /\ pc = "done"
    /\ reordered
    /\ Len(items) = 3
    /\ FetchFailed(2)
    /\ Len(ret) = 2
    /\ IdOf(ret[1]) = items[1]
    /\ IdOf(ret[2]) = items[3]

\* C3: a supplied progress callback (one that returns) is invoked once per
\* settled item, with completed = 1, 2, ..., n in that order and total = n,
\* so exactly n times by the time the batch returns.
C3_ProgressCounts ==
    (Started /\ opts.onProgress = "returns") =>
        /\ \A j \in 1..Len(progress) : progress[j] = <<j, Len(items)>>
        /\ Len(progress) = Cardinality(SettledTasks)
        /\ pc = "done" => Len(progress) = Len(items)

C3_Witness ==
    /\ pc = "done"
    /\ opts.onProgress = "returns"
    /\ reordered
    /\ Len(items) = 3
    /\ Len(progress) = 3
    /\ \E i \in 1..3 : FetchFailed(i)
    /\ \E i \in 1..3 : tasks[i].val = "result"

\* C4: once the fan-out has begun the call never rejects because item fetches
\* failed, whatever subset of items fails and with whatever error; it returns
\* the results of exactly the items that did not fail.
C4_FailuresIsolated ==
    (Started /\ WellBehavedCallback) =>
        /\ pc = "rejected" => sent.item = 0
        /\ pc = "done" =>
              {IdOf(ret[j]) : j \in 1..Len(ret)} =
                  {items[i] : i \in {h \in 1..Len(items) : ~FetchFailed(h)}}

C4_Witness ==
    /\ pc = "done"
    /\ Len(items) = 3
    /\ \E i, j \in 1..3 :
          /\ tasks[i].why = "http_error"
          /\ tasks[j].why = "network_error"
    /\ Len(ret) = 1

\* C5: if every network call eventually settles, the bulk call eventually
\* returns, for every concurrency bound, and it returns only after every
\* item has settled.
AllSettled ==
    /\ \A i \in 1..Len(tasks) : tasks[i].st = "settled"
    /\ queue = <<>>
    /\ activeCount = 0

C5_EventuallyReturns ==
    /\ [](pc = "done" => AllSettled)
    /\ (pc \in {"query", "fanout"}) ~> (pc \in {"done", "rejected"})
    /\ (pc = "fanout" /\ WellBehavedCallback) ~> (pc = "done")

C5_Witness ==
    /\ pc = "done"
    /\ Len(items) = 3
    /\ Concurrency.num = 1
    /\ AllSettled

\* the call was given both a relative window and a since timestamp
BothFilters ==
    /\ opts.lastNMinutes \notin {Undefined, JsNull, Dead}
    /\ opts.since # Dead
    /\ Truthy(opts.since)

\* C8: a bulk query given both lastNMinutes and since fails with a usage
\* error, and no network request has been issued when it fails.
C8_RejectsBoth ==
    (pc # "idle" /\ BothFilters) =>
        /\ pc \in {"exit", "rejected"}
        /\ err = "UsageError"
        /\ sent = NoSent

\* C9: a query response with zero runs (an empty or missing runs list) makes
\* the call resolve to an empty array: no error, no single-item fetch, no
\* progress callback.
C9_ZeroRuns ==
    (queryData # NoData /\ Len(RunsOf(queryData)) = 0) =>
        /\ pc = "done"
        /\ ret = <<>>
        /\ err = NoError
        /\ sent = [NoSent EXCEPT !.query = 1]
        /\ tasks = <<>>
        /\ progress = <<>>

C9_Witness ==
    /\ pc = "done"
    /\ queryData # NoData
    /\ ~queryData.has_runs
    /\ opts.kind = "threads"
    /\ opts.onProgress = "returns"
    /\ ret = <<>>

\* ------------------------------------------------ claims on the thread-id scan
\* the identifiers of the runs, in run order (runs without one left out)
RECURSIVE IdentifiersOf(_)
IdentifiersOf(runs) ==
    IF runs = <<>> THEN <<>>
    ELSE LET id == ThreadIdOf(Head(runs))
         IN  IF Truthy(id) THEN <<id>> \o IdentifiersOf(Tail(runs))
             ELSE IdentifiersOf(Tail(runs))

\* C6: the thread ids collected by fetchThreads hold no duplicates and are a
\* prefix of the distinct identifiers of the run list in first-occurrence
\* order; the scan ends with the whole of that sequence or with at least
\* limit ids of it.
C6_FirstSeenPrefix ==
    LET
        IsPrefix(a, b) == Len(a) <= Len(b) /\ \A i \in 1..Len(a) : a[i] = b[i]
        \* the distinct elements of a sequence, ordered by first occurrence
        FirstOccurrences(seq) ==
            LET firsts == {p \in 1..Len(seq) : \A q \in 1..(p - 1) : seq[q] # seq[p]}
                rank(p) == Cardinality({q \in firsts : q <= p})
            IN  [j \in 1..Cardinality(firsts) |->
                    seq[CHOOSE p \in firsts : rank(p) = j]]
    IN
    scan # NoScan =>
        LET distinct == FirstOccurrences(IdentifiersOf(scan.runs))
        IN  /\ \A i, j \in 1..Len(scan.threadIds) :
                  i # j => scan.threadIds[i] # scan.threadIds[j]
            /\ IsPrefix(scan.threadIds, distinct)
            /\ scan.stopped =>
                  \/ scan.threadIds = distinct
                  \/ Len(scan.threadIds) >= scan.limit

C6_Witness ==
    /\ scan # NoScan
    /\ scan.stopped
    /\ scan.limit = 2
    /\ IdentifiersOf(scan.runs) = <<Str("a"), Str("a"), Str("b"), Str("a"), Str("c")>>
    /\ scan.threadIds = <<Str("a"), Str("b")>>

\* C7: for every limit >= 0 at most limit thread ids are collected, and the
\* scan stops as soon as the collection holds limit ids.
C7_AtMostLimit ==
    scan # NoScan =>
        /\ Len(scan.threadIds) <= scan.limit
        /\ (scan.threadIds # <<>> /\ Len(scan.threadIds) >= scan.limit) => scan.stopped

\* ---------------------------------------------- claims on extractRunMetadata
ValidTime(v) == "str" \in DOMAIN v /\ DateGetTime(v) # NaN

\* C10: duration_ms is end minus start in milliseconds exactly when both
\* timestamps are present and parse; in every other case it is null.
C10_DurationOrNull ==
    (meta # NoMeta /\ meta.applied) =>
        IF ValidTime(meta.run.start_time) /\ ValidTime(meta.run.end_time)
        THEN meta.out.duration_ms =
                Num(DateGetTime(meta.run.end_time).num - DateGetTime(meta.run.start_time).num)
        ELSE meta.out.duration_ms = JsNull

\* ------------------------------------------ claims on the message-stream parser

\* C11: fetchThread returns exactly the decodable segments of the blob split
\* on a blank line, in source order; blank and undecodable segments are
\* dropped, and no decode failure reaches the caller.
C11_DecodableSegments ==
    LET
        \* the number of newlines that stand immediately before position p
        NewlinesBefore(s, p) ==
            Cardinality({k \in 1..(p - 1) : \A j \in k..(p - 1) : s[j] = "NL"})
        \* where the blank lines that separate segments begin: a pair of newlines at
        \* an even offset within its run of newlines
        SeparatorStarts(s) ==
            {p \in 1..(Len(s) - 1) :
                s[p] = "NL" /\ s[p + 1] = "NL" /\ NewlinesBefore(s, p) % 2 = 0}
        \* the segments between the separators, as <<first, last>> positions in order
        SegmentBounds(s) ==
            LET seps == SeparatorStarts(s)
                starts == {1} \cup {p + 2 : p \in seps}
                last(a) == IF \E p \in seps : p >= a
                           THEN (CHOOSE p \in seps : p >= a /\ \A q \in seps : q >= a => p <= q) - 1
                           ELSE Len(s)
                rank(a) == Cardinality({b \in starts : b <= a})
            IN  [j \in 1..Cardinality(starts) |->
                    LET a == CHOOSE b \in starts : rank(b) = j IN <<a, last(a)>>]
        \* the decodable segments of the blob, decoded, in source order
        DecodableSegments(s) ==
            LET bounds == SegmentBounds(s)
                text(j) == Trim(SubSeq(s, bounds[j][1], bounds[j][2]))
                kept == SelectSeq([j \in 1..Len(bounds) |-> text(j)],
                                  LAMBDA t : t # <<>> /\ IsJson(t))
            IN  [j \in 1..Len(kept) |-> JsonParse(kept[j]).value]
    IN
    (parse # NoParse /\ parse.applied) =>
        /\ ~parse.out.threw
        /\ parse.out.value.thread_id = Str("t-1")
        /\ parse.out.value.messages = Arr(DecodableSegments(parse.blob))

C11_Witness ==
    /\ parse # NoParse
    /\ parse.applied
    /\ parse.blob = <<"SP", "M1", "NL", "NL", "NL", "X", "NL", "NL", "M2">>
    /\ parse.out.value.messages = Arr(<<(<<"M1">>), (<<"M2">>)>>)

\* ------------------------------------------ claims on the single-item fetchers
IsFetchTrace == single # NoSingle /\ single.op = "fetchTrace"
\* the caller set the option to true
Requested(name) == single.options # Undefined /\ single.options[name] = Bool(TRUE)
WantsMetadata == Requested("includeMetadata")
WantsFeedback == Requested("includeFeedback")
Present(v) == v # Undefined
\* some value of the run's feedback_stats is a positive number
PositiveStat(run) ==
    /\ "arr" \in DOMAIN run.feedback_stats
    /\ \E i \in 1..Len(run.feedback_stats.arr) :
          /\ "num" \in DOMAIN run.feedback_stats.arr[i]
          /\ run.feedback_stats.arr[i].num > 0

\* C12 as stated: metadata is present exactly when includeMetadata was set,
\* and feedback exactly when includeFeedback was set.
C12_PresentIffRequested ==
    (IsFetchTrace /\ single.pc = "done") =>
        /\ Present(single.result.metadata) <=> WantsMetadata
        /\ Present(single.result.feedback) <=> WantsFeedback

\* C12 amended: metadata and feedback are present together, exactly when at
\* least one of includeMetadata and includeFeedback was set.
C12_PresentIffEitherRequested ==
    (IsFetchTrace /\ single.pc = "done") =>
        /\ Present(single.result.metadata) <=> (WantsMetadata \/ WantsFeedback)
        /\ Present(single.result.feedback) <=> (WantsMetadata \/ WantsFeedback)

C12_Witness ==
    /\ IsFetchTrace
    /\ single.pc = "done"
    /\ WantsMetadata
    /\ ~WantsFeedback
    /\ Present(single.result.metadata)
    /\ single.result.feedback = Arr(<<>>)

\* C13: with neither option set (or no options) the returned TraceData has
\* neither a metadata nor a feedback field, and one request was issued.
C13_NothingRequested ==
    (IsFetchTrace /\ ~WantsMetadata /\ ~WantsFeedback) =>
        /\ single.sent.feedback = 0
        /\ single.sent.run <= 1
        /\ single.pc = "done" =>
              /\ single.sent.run = 1
              /\ single.result.trace_id = single.id
              /\ ~Present(single.result.metadata)
              /\ ~Present(single.result.feedback)

C13_Witness ==
    /\ IsFetchTrace
    /\ single.pc = "done"
    /\ single.options = Undefined
    /\ PositiveStat(single.run)
    /\ single.result.messages = Arr(<<"m1", "m2">>)
    /\ ~Present(single.result.metadata)
    /\ ~Present(single.result.feedback)

\* C14: when the feedback lookup fails in any way, fetchTrace still succeeds
\* and its feedback is the empty list.
C14_FeedbackBestEffort ==
    (IsFetchTrace /\ single.fb # NoData /\ OutcomeOf(single.fb) # "ok") =>
        /\ single.pc = "done"
        /\ single.result.feedback = Arr(<<>>)

\* C15: the feedback request is issued exactly when includeFeedback
\* is set and some feedback_stats value of the run is a positive number;
\* otherwise, when metadata or feedback was requested, no request is issued
\* and feedback is the empty list.
C15_FeedbackGate ==
    (IsFetchTrace /\ single.run # NoData) =>
        /\ single.sent.feedback = IF WantsFeedback /\ PositiveStat(single.run) THEN 1 ELSE 0
        /\ ((WantsMetadata \/ WantsFeedback) /\ single.sent.feedback = 0) =>
              /\ single.pc = "done"
              /\ single.result.feedback = Arr(<<>>)

\* C16: a non-success status on the run request of fetchTrace or the preview
\* request of fetchThread makes the call reject with an ApiError that carries
\* the status code and the raw response text; nothing is returned.
C16_ApiErrorPropagates ==
    (/\ single # NoSingle
     /\ single.op \in {"fetchTrace", "fetchThread"}
     /\ single.resp # NoData
     /\ single.resp.arrived
     /\ ~ResponseOk(single.resp)) =>
        /\ single.pc = "rejected"
        /\ single.error = [name |-> "ApiError", statusCode |-> single.resp.status,
                            responseBody |-> single.resp.text]
        /\ single.result = NoData
        /\ single.sent.feedback = 0

C16_Witness ==
    /\ single # NoSingle
    /\ single.op = "fetchThread"
    /\ single.pc = "rejected"
    /\ single.error = [name |-> "ApiError", statusCode |-> 404, responseBody |-> Str("detail")]

\* ------------------------------------------ claims on the missing credential
\* no API key was available to the operation: neither LANGSMITH_API_KEY nor
\* the config file held one when it was called
NoKeyAvailable == IF env = NoEnv THEN FALSE ELSE env.noKeyAtCall

NothingSentBySingle == single.sent = [run |-> 0, feedback |-> 0, preview |-> 0, lookup |-> 0]

IsSingleFetch == single # NoSingle /\ single.op \in {"fetchTrace", "fetchThread"}

\* C17 as stated: without an API key each of fetchTrace, fetchThread, fetchTraces and fetchThreads fails with a
\* ConfigError, and no network request is issued.
C17_NoKeyConfigError ==
    NoKeyAvailable =>
        /\ pc # "idle" =>
              /\ pc = "rejected"
              /\ err = "ConfigError"
              /\ sent = NoSent
        /\ IsSingleFetch =>
              /\ single.pc = "rejected"
              /\ single.error = JsError("ConfigError")
              /\ NothingSentBySingle

\* C17 amended: without an API key each of the four operations fails and
\* issues no network request; the error is a ConfigError, except that a bulk
\* call whose time filter does not convert to a date fails with the RangeError
\* of building the query body, which comes before the key is read.
C17_NoKeyNoRequest ==
    NoKeyAvailable =>
        /\ pc # "idle" =>
              /\ pc = "rejected"
              /\ sent = NoSent
              /\ err = IF StartTime(opts).threw THEN "RangeError" ELSE "ConfigError"
        /\ IsSingleFetch =>
              /\ single.pc = "rejected"
              /\ single.error = JsError("ConfigError")
              /\ NothingSentBySingle

C17_Witness ==
    /\ NoKeyAvailable
    /\ pc = "rejected"
    /\ opts.kind = "threads"
    /\ opts.since = SinceOk
    /\ err = "ConfigError"
    /\ sent = NoSent

\* ------------------------------------------------ claims on the thread command
IsThreadCommand == single # NoSingle /\ single.op = "thread"

\* C20: the thread command, when neither --project-uuid nor the configuration
\* lookup yields a project identifier, exits with a failure status and never
\* calls fetchThread, formats or writes output.
C20_ThreadNeedsProject ==
    (IsThreadCommand /\ single.pc # "lookup" /\ Falsy(single.scope)) =>
        /\ single.pc = "exit"
        /\ single.exitCode = Num(1)
        /\ ~single.called
        /\ ~single.written
        /\ single.sent.preview = 0

C20_Witness ==
    /\ IsThreadCommand
    /\ single.options.projectUuid = Str("")
    /\ env.LANGSMITH_API_KEY = Str("key-env")
    /\ env.LANGSMITH_PROJECT = Undefined
    /\ single.pc = "exit"
    /\ single.error = JsError("UsageError")
    /\ ~single.called

\* --------------------------------------------------- claims on getProjectUuid

\* C18: across all getProjectUuid calls of a process that resolves the
\* project by name, calls overlapping an unresolved lookup included, the
\* lookup request is issued at most once.
C18_LookupAtMostOnce ==
    LET
        \* the process resolves the project by name
        ResolvesByName ==
            /\ proj # NoProj
            /\ Falsy(env.LANGSMITH_PROJECT_UUID)
            /\ Truthy(env.LANGSMITH_PROJECT)
    IN
    ResolvesByName => proj.sent <= 1

\* --------------------------------------------------- claims on the query body
\* C19: every /runs/query request, of fetchTraces and of fetchThreads, carries
\* a limit on the number of records in its body.
C19_QueryCarriesLimit ==
    pc = "query" =>
        /\ "num" \in DOMAIN body.limit
        /\ body.limit.num >= 0


\* ------------------------------------------ claims on the configuration

\* C21: getApiKey returns a non-empty LANGSMITH_API_KEY whatever the config
\* file holds; otherwise a non-empty api-key (or api_key) of the config file;
\* otherwise it throws ConfigError and returns nothing.
C21_KeyPrecedence ==
    LET NonEmpty(v) == "str" \in DOMAIN v /\ v.str # ""
        hyphen == env.config["api-key"]
        underscore == env.config["api_key"]
    IN  (app # NoApp /\ app.fn = "getApiKey" /\ app.applied) =>
            IF NonEmpty(env.LANGSMITH_API_KEY)
            THEN ~app.out.threw /\ app.out.value = env.LANGSMITH_API_KEY
            ELSE IF NonEmpty(hyphen)
            THEN ~app.out.threw /\ app.out.value = hyphen
            ELSE IF NonEmpty(underscore)
            THEN ~app.out.threw /\ app.out.value = underscore
            ELSE app.out.threw /\ app.out.error = "ConfigError"


\* ------------------------------------------ claims on file names

\* C22: for every input, sanitizeFilename returns a string of at most 255
\* characters made of word characters, '-' and '.' only, that neither begins
\* nor ends with a dot.
C22_SafeFilename ==
    (app # NoApp /\ app.fn = "sanitizeFilename" /\ app.applied) =>
        /\ Len(app.out) <= 255
        /\ \A i \in 1..Len(app.out) : app.out[i] \in WordChars \cup {"-", "."}
        /\ Len(app.out) > 0 => (app.out[1] # "." /\ app.out[Len(app.out)] # ".")


\* C30: in directory mode no two distinct items of one batch are written to
\* the same path, so no file written earlier is overwritten by a later item.
C30_OwnFilePerItem ==
    dir # NoDir =>
        \A i, j \in DOMAIN dir.files : i # j => dir.files[i] # dir.files[j]


\* ------------------------------------------ claims on the batch as a whole

\* C23: in one bulk call every discovered item gets exactly one single-item
\* fetch attempt, the call of fetchTrace / fetchThread for it.  The attempt
\* sends one request, or none when it finds no API key; so each item that
\* left the queue was requested once unless its attempt found no key, none is
\* requested again after it failed, and once the call returns (also after
\* earlier items failed) every item has been attempted.
C23_OneAttemptPerItem ==
    Started =>
        LET attempted == {i \in 1..Len(tasks) : tasks[i].st # "queued"}
            withoutKey == {i \in 1..Len(tasks) : tasks[i].why = "no_key"}
        IN  /\ Len(tasks) \in {0, Len(items)}
            /\ withoutKey \subseteq attempted
            /\ sent.item = Cardinality(attempted \ withoutKey)
            /\ (tasks # <<>> /\ AllSettled) => Cardinality(attempted) = Len(items)
            /\ pc = "done" => Cardinality(attempted) = Len(items)

C23_Witness ==
    /\ pc = "done"
    /\ Len(items) = 3
    /\ FetchFailed(1)
    /\ tasks[2].val = "result"
    /\ FetchFailed(3)
    /\ sent.item = 3

\* C27: the settled counter is incremented exactly once per item, so no
\* progress callback invocation receives completed > total and the counter
\* equals total when the batch returns, also when the callback throws.
C27_CountedOncePerItem ==
    Started =>
        /\ \A j \in 1..Len(progress) : progress[j][1] <= progress[j][2]
        /\ completed = Cardinality(SettledTasks)
        /\ pc = "done" => completed = Len(items)

\* C29: a bulk fetch starts its items in input order, and whenever fewer
\* than N fetches are in flight no item is left waiting.
C29_StartsInOrder ==
    (Started /\ PLimitAccepts(Concurrency)) =>
        /\ \A i, j \in 1..Len(tasks) :
              (i < j /\ tasks[j].st # "queued") => tasks[i].st # "queued"
        /\ (\E i \in 1..Len(tasks) : tasks[i].st = "queued") =>
              Cardinality(InFlight) = Concurrency.num

C29_Witness ==
    /\ pc = "fanout"
    /\ Len(items) = 3
    /\ Concurrency.num = 1
    /\ tasks[1].st = "settled"
    /\ tasks[2].st = "run"
    /\ tasks[3].st = "queued"


\* C24: fetchTrace takes the messages from the run's direct messages field
\* when it is there, otherwise from outputs.messages, otherwise it gives the
\* empty sequence; the chosen sequence is returned as it is, never merged
\* with the other one.  A field that is missing or null is not there.
C24_FirstPresentWins ==
    LET run == single.run
        There(v) == v \notin {Undefined, JsNull}
        nested == IF There(run.outputs) THEN run.outputs.messages ELSE Undefined
    IN  (IsFetchTrace /\ single.pc \in {"feedback", "done"}) =>
            single.result.messages =
                IF There(run.messages) THEN run.messages
                ELSE IF There(nested) THEN nested
                ELSE Arr(<<>>)

C24_Witness ==
    /\ IsFetchTrace
    /\ single.pc = "done"
    /\ single.run.messages = Arr(<<"m1", "m2">>)
    /\ single.run.outputs = [messages |-> Arr(<<"m2", "m1">>)]
    /\ single.result.messages = Arr(<<"m1", "m2">>)


\* ------------------------------------------ claims on the query body

\* C25: in the query body of fetchTraces and fetchThreads, start_time is
\* present if and only if a time filter was supplied: with lastNMinutes = N
\* alone it is the instant of the call minus N minutes (also for N = 0), with
\* since alone it is that timestamp, with neither the body has no start_time.
C25_StartTimeIffFilter ==
    LET hasMinutes == opts.lastNMinutes \notin {Undefined, JsNull}
        hasSince == opts.since \notin {Undefined, JsNull, Str("")}
    IN  pc = "query" =>
            /\ (body.start_time # Undefined) <=> (hasMinutes \/ hasSince)
            /\ (hasMinutes /\ ~hasSince) =>
                  body.start_time = [iso |-> NowMs - opts.lastNMinutes.num * 60 * 1000]
            /\ (hasSince /\ ~hasMinutes /\ opts.since = Str("1970-01-01T00:00:01Z")) =>
                  body.start_time = [iso |-> 1000]

C25_Witness ==
    /\ pc = "query"
    /\ opts.kind = "threads"
    /\ opts.lastNMinutes = Num(0)
    /\ opts.since = Undefined
    /\ body.start_time = [iso |-> NowMs]


\* ------------------------------------------ claims on the thread identifier

\* C26: in fetchThreads the identifier of a run is its metadata thread_id
\* when that key is there and its session_id when thread_id is absent; the
\* ids collected are those of the runs scanned so far, and a run that yields
\* no identifier adds nothing and does not count towards the limit.
C26_ThreadIdPreferred ==
    LET There(v) == v \notin {Undefined, JsNull}
        MetaOf(run) == IF There(run.extra) /\ There(run.extra.metadata)
                       THEN run.extra.metadata
                       ELSE [thread_id |-> Undefined, session_id |-> Undefined]
        Chosen(run) == IF There(MetaOf(run).thread_id)
                       THEN MetaOf(run).thread_id
                       ELSE MetaOf(run).session_id
        Yields(run) == There(Chosen(run)) /\ Chosen(run) # Str("")
    IN  scan # NoScan =>
            LET last == IF scan.stopped /\ scan.pos <= Len(scan.runs)
                        THEN scan.pos ELSE scan.pos - 1
                found == {Chosen(scan.runs[k]) : k \in {h \in 1..last : Yields(scan.runs[h])}}
            IN  /\ {scan.threadIds[i] : i \in 1..Len(scan.threadIds)} = found
                /\ Len(scan.threadIds) = Cardinality(found)
                /\ (scan.stopped /\ scan.pos <= Len(scan.runs)) =>
                      Len(scan.threadIds) >= scan.limit

C26_Witness ==
    /\ scan # NoScan
    /\ scan.stopped
    /\ scan.limit = 2
    /\ Len(scan.runs) = 4
    /\ scan.runs[1].extra = Undefined
    /\ scan.runs[2].extra = [metadata |-> [thread_id |-> Str("c"), session_id |-> Str("a")]]
    /\ scan.runs[3].extra = [metadata |-> [thread_id |-> Str(""), session_id |-> Str("b")]]
    /\ scan.runs[4].extra = [metadata |-> [thread_id |-> Undefined, session_id |-> Str("a")]]
    /\ scan.threadIds = <<Str("c"), Str("a")>>


\* C28: when getProjectUuid resolves the project by name, the id it returns
\* is the id looked up for the project LANGSMITH_PROJECT names at the time of
\* the call, also after the name changed between two calls of the process.
C28_IdOfCurrentName ==
    proj # NoProj =>
        \A i \in 1..Len(proj.calls) :
            LET c == proj.calls[i]
            IN  (c.pc = "done" /\ c.of # Undefined) => c.of = c.name

====
